---- MODULE Spec2Model ----
(***************************************************************************)
(* Model of the list-filter parser (package listfilter, v0.3.0 sources):   *)
(* Parser.Parse and the Filter / Condition values it returns.              *)
(*                                                                         *)
(* Strings are sequences of bytes (0..255).  Go indexes from 0, so the Go  *)
(* expression s[i] is At(s, i) and s[a:b] is Slice(s, a, b).               *)
(***************************************************************************)
EXTENDS Integers, Sequences, FiniteSets, Bags, TLC

\* Bounds of the model.
MaxConds == 3
MaxLen == 4

\* const ( nameSeparator = '.'; escapeCharacter = '\\'; quote = '"' )
nameSeparator == 46
escapeCharacter == 92
quote == 34

At(s, i) == s[i + 1]
Slice(s, a, b) == SubSeq(s, a + 1, b)
From(s, a) == SubSeq(s, a + 1, Len(s))

\* Let(x, F) binds the value x in F: "x := ...; F".
Let(x, F(_)) == F(x)

(***************************************************************************)
(* Standard library: unicode/utf8 and unicode, as far as the parser uses   *)
(* them.                                                                   *)
(***************************************************************************)

IsCont(b) == b >= 128 /\ b <= 191

\* utf8.DecodeRuneInString(s[i:]) for i < len(s): the rune and its width;
\* an invalid or truncated encoding decodes to (U+FFFD, 1).
DecodeRuneInString(s, i) ==
  LET n  == Len(s) - i
      b0 == At(s, i)
      b1 == IF n >= 2 THEN At(s, i + 1) ELSE 0
      b2 == IF n >= 3 THEN At(s, i + 2) ELSE 0
      b3 == IF n >= 4 THEN At(s, i + 3) ELSE 0
      bad == [r |-> 65533, width |-> 1]
  IN  IF b0 < 128 THEN [r |-> b0, width |-> 1]
      ELSE IF b0 >= 194 /\ b0 <= 223
        THEN IF n >= 2 /\ IsCont(b1)
               THEN [r |-> (b0 - 192) * 64 + (b1 - 128), width |-> 2]
               ELSE bad
      ELSE IF b0 >= 224 /\ b0 <= 239
        THEN IF n >= 3 /\ IsCont(b2)
                /\ b1 >= (IF b0 = 224 THEN 160 ELSE 128)
                /\ b1 <= (IF b0 = 237 THEN 159 ELSE 191)
               THEN [r |-> (b0 - 224) * 4096 + (b1 - 128) * 64 + (b2 - 128),
                     width |-> 3]
               ELSE bad
      ELSE IF b0 >= 240 /\ b0 <= 244
        THEN IF n >= 4 /\ IsCont(b2) /\ IsCont(b3)
                /\ b1 >= (IF b0 = 240 THEN 144 ELSE 128)
                /\ b1 <= (IF b0 = 244 THEN 143 ELSE 191)
               THEN [r |-> (b0 - 240) * 262144 + (b1 - 128) * 4096
                            + (b2 - 128) * 64 + (b3 - 128),
                     width |-> 4]
               ELSE bad
      ELSE bad

\* strings.Builder.WriteRune(r): the UTF-8 encoding of r (surrogates and
\* out-of-range values are written as U+FFFD).
EncodeRune(r) ==
  IF r < 0 \/ r > 1114111 \/ (r >= 55296 /\ r <= 57343) THEN <<239, 191, 189>>
  ELSE IF r < 128 THEN <<r>>
  ELSE IF r < 2048 THEN <<192 + (r \div 64), 128 + (r % 64)>>
  ELSE IF r < 65536
    THEN <<224 + (r \div 4096), 128 + ((r \div 64) % 64), 128 + (r % 64)>>
  ELSE <<240 + (r \div 262144), 128 + ((r \div 4096) % 64),
         128 + ((r \div 64) % 64), 128 + (r % 64)>>

\* unicode.IsSpace(r)
IsSpace(r) ==
  \/ r \in {9, 10, 11, 12, 13, 32, 133, 160}
  \/ r \in {5760, 8232, 8233, 8239, 8287, 12288}
  \/ (r >= 8192 /\ r <= 8202)

\* unicode.IsLetter(rune(b)) for a byte b: the letters of U+0000..U+00FF.
IsLetter(r) ==
  \/ (r >= 65 /\ r <= 90) \/ (r >= 97 /\ r <= 122)
  \/ r \in {170, 181, 186}
  \/ (r >= 192 /\ r <= 214) \/ (r >= 216 /\ r <= 246) \/ (r >= 248 /\ r <= 255)

\* unicode.IsNumber(rune(b)) for a byte b: the numbers of U+0000..U+00FF.
IsNumber(r) ==
  \/ (r >= 48 /\ r <= 57)
  \/ r \in {178, 179, 185, 188, 189, 190}

\* A range table entry <<lo, hi, stride>> or <<lo, hi, stride, delta>> holds
\* the code points lo, lo + stride, ... up to hi.
InRange(t, r) == r >= t[1] /\ r <= t[2] /\ (r - t[1]) % t[3] = 0

\* unicode.Upper beyond Latin-1: the code points of category Lu from U+0100
\* on, as <<lo, hi, stride>>.
UpperRanges == {
  <<256, 310, 2>>, <<313, 327, 2>>, <<330, 376, 2>>, <<377, 381, 2>>,
  <<385, 386, 1>>, <<388, 388, 1>>, <<390, 391, 1>>, <<393, 395, 1>>,
  <<398, 401, 1>>, <<403, 404, 1>>, <<406, 408, 1>>, <<412, 413, 1>>,
  <<415, 416, 1>>, <<418, 422, 2>>, <<423, 423, 1>>, <<425, 425, 1>>,
  <<428, 428, 1>>, <<430, 431, 1>>, <<433, 435, 1>>, <<437, 437, 1>>,
  <<439, 440, 1>>, <<444, 444, 1>>, <<452, 461, 3>>, <<463, 475, 2>>,
  <<478, 494, 2>>, <<497, 497, 1>>, <<500, 500, 1>>, <<502, 504, 1>>,
  <<506, 562, 2>>, <<570, 571, 1>>, <<573, 574, 1>>, <<577, 577, 1>>,
  <<579, 582, 1>>, <<584, 590, 2>>, <<880, 880, 1>>, <<882, 882, 1>>,
  <<886, 886, 1>>, <<895, 895, 1>>, <<902, 902, 1>>, <<904, 906, 1>>,
  <<908, 908, 1>>, <<910, 911, 1>>, <<913, 929, 1>>, <<931, 939, 1>>,
  <<975, 975, 1>>, <<978, 980, 1>>, <<984, 1006, 2>>, <<1012, 1012, 1>>,
  <<1015, 1015, 1>>, <<1017, 1018, 1>>, <<1021, 1071, 1>>, <<1120, 1152, 2>>,
  <<1162, 1216, 2>>, <<1217, 1229, 2>>, <<1232, 1326, 2>>, <<1329, 1366, 1>>,
  <<4256, 4293, 1>>, <<4295, 4295, 1>>, <<4301, 4301, 1>>, <<5024, 5109, 1>>,
  <<7312, 7354, 1>>, <<7357, 7359, 1>>, <<7680, 7828, 2>>, <<7838, 7934, 2>>,
  <<7944, 7951, 1>>, <<7960, 7965, 1>>, <<7976, 7983, 1>>, <<7992, 7999, 1>>,
  <<8008, 8013, 1>>, <<8025, 8031, 2>>, <<8040, 8047, 1>>, <<8120, 8123, 1>>,
  <<8136, 8139, 1>>, <<8152, 8155, 1>>, <<8168, 8172, 1>>, <<8184, 8187, 1>>,
  <<8450, 8450, 1>>, <<8455, 8455, 1>>, <<8459, 8461, 1>>, <<8464, 8466, 1>>,
  <<8469, 8469, 1>>, <<8473, 8477, 1>>, <<8484, 8490, 2>>, <<8491, 8493, 1>>,
  <<8496, 8499, 1>>, <<8510, 8511, 1>>, <<8517, 8517, 1>>, <<8579, 8579, 1>>,
  <<11264, 11311, 1>>, <<11360, 11360, 1>>, <<11362, 11364, 1>>,
  <<11367, 11373, 2>>, <<11374, 11376, 1>>, <<11378, 11378, 1>>,
  <<11381, 11381, 1>>, <<11390, 11392, 1>>, <<11394, 11490, 2>>,
  <<11499, 11499, 1>>, <<11501, 11501, 1>>, <<11506, 11506, 1>>,
  <<42560, 42604, 2>>, <<42624, 42650, 2>>, <<42786, 42798, 2>>,
  <<42802, 42862, 2>>, <<42873, 42877, 2>>, <<42878, 42886, 2>>,
  <<42891, 42891, 1>>, <<42893, 42893, 1>>, <<42896, 42896, 1>>,
  <<42898, 42898, 1>>, <<42902, 42922, 2>>, <<42923, 42926, 1>>,
  <<42928, 42932, 1>>, <<42934, 42948, 2>>, <<42949, 42951, 1>>,
  <<42953, 42953, 1>>, <<42960, 42960, 1>>, <<42966, 42966, 1>>,
  <<42968, 42968, 1>>, <<42997, 42997, 1>>, <<65313, 65338, 1>>,
  <<66560, 66599, 1>>, <<66736, 66771, 1>>, <<66928, 66938, 1>>,
  <<66940, 66954, 1>>, <<66956, 66962, 1>>, <<66964, 66965, 1>>,
  <<68736, 68786, 1>>, <<71840, 71871, 1>>, <<93760, 93791, 1>>,
  <<119808, 119833, 1>>, <<119860, 119885, 1>>, <<119912, 119937, 1>>,
  <<119964, 119964, 1>>, <<119966, 119967, 1>>, <<119970, 119970, 1>>,
  <<119973, 119974, 1>>, <<119977, 119980, 1>>, <<119982, 119989, 1>>,
  <<120016, 120041, 1>>, <<120068, 120069, 1>>, <<120071, 120074, 1>>,
  <<120077, 120084, 1>>, <<120086, 120092, 1>>, <<120120, 120121, 1>>,
  <<120123, 120126, 1>>, <<120128, 120132, 1>>, <<120134, 120134, 1>>,
  <<120138, 120144, 1>>, <<120172, 120197, 1>>, <<120224, 120249, 1>>,
  <<120276, 120301, 1>>, <<120328, 120353, 1>>, <<120380, 120405, 1>>,
  <<120432, 120457, 1>>, <<120488, 120512, 1>>, <<120546, 120570, 1>>,
  <<120604, 120628, 1>>, <<120662, 120686, 1>>, <<120720, 120744, 1>>,
  <<120778, 120778, 1>>, <<125184, 125217, 1>> }

\* unicode.CaseRanges beyond Latin-1, lower-case column: the code points
\* from U+0100 on that unicode.ToLower changes, as <<lo, hi, stride, delta>>
\* with delta the distance to the lower-case letter.
ToLowerRanges == {
  <<256, 302, 2, 1>>, <<304, 304, 1, -199>>, <<306, 310, 2, 1>>,
  <<313, 327, 2, 1>>, <<330, 374, 2, 1>>, <<376, 376, 1, -121>>,
  <<377, 381, 2, 1>>, <<385, 385, 1, 210>>, <<386, 386, 1, 1>>,
  <<388, 388, 1, 1>>, <<390, 390, 1, 206>>, <<391, 391, 1, 1>>,
  <<393, 394, 1, 205>>, <<395, 395, 1, 1>>, <<398, 398, 1, 79>>,
  <<399, 399, 1, 202>>, <<400, 400, 1, 203>>, <<401, 401, 1, 1>>,
  <<403, 403, 1, 205>>, <<404, 404, 1, 207>>, <<406, 406, 1, 211>>,
  <<407, 407, 1, 209>>, <<408, 408, 1, 1>>, <<412, 412, 1, 211>>,
  <<413, 413, 1, 213>>, <<415, 415, 1, 214>>, <<416, 420, 2, 1>>,
  <<422, 422, 1, 218>>, <<423, 423, 1, 1>>, <<425, 425, 1, 218>>,
  <<428, 428, 1, 1>>, <<430, 430, 1, 218>>, <<431, 431, 1, 1>>,
  <<433, 434, 1, 217>>, <<435, 435, 1, 1>>, <<437, 437, 1, 1>>,
  <<439, 439, 1, 219>>, <<440, 440, 1, 1>>, <<444, 444, 1, 1>>,
  <<452, 452, 1, 2>>, <<453, 453, 1, 1>>, <<455, 455, 1, 2>>,
  <<456, 456, 1, 1>>, <<458, 458, 1, 2>>, <<459, 475, 2, 1>>,
  <<478, 494, 2, 1>>, <<497, 497, 1, 2>>, <<498, 498, 1, 1>>,
  <<500, 500, 1, 1>>, <<502, 502, 1, -97>>, <<503, 503, 1, -56>>,
  <<504, 542, 2, 1>>, <<544, 544, 1, -130>>, <<546, 562, 2, 1>>,
  <<570, 570, 1, 10795>>, <<571, 571, 1, 1>>, <<573, 573, 1, -163>>,
  <<574, 574, 1, 10792>>, <<577, 577, 1, 1>>, <<579, 579, 1, -195>>,
  <<580, 580, 1, 69>>, <<581, 581, 1, 71>>, <<582, 590, 2, 1>>,
  <<880, 880, 1, 1>>, <<882, 882, 1, 1>>, <<886, 886, 1, 1>>,
  <<895, 895, 1, 116>>, <<902, 902, 1, 38>>, <<904, 906, 1, 37>>,
  <<908, 908, 1, 64>>, <<910, 911, 1, 63>>, <<913, 929, 1, 32>>,
  <<931, 939, 1, 32>>, <<975, 975, 1, 8>>, <<984, 1006, 2, 1>>,
  <<1012, 1012, 1, -60>>, <<1015, 1015, 1, 1>>, <<1017, 1017, 1, -7>>,
  <<1018, 1018, 1, 1>>, <<1021, 1023, 1, -130>>, <<1024, 1039, 1, 80>>,
  <<1040, 1071, 1, 32>>, <<1120, 1152, 2, 1>>, <<1162, 1214, 2, 1>>,
  <<1216, 1216, 1, 15>>, <<1217, 1229, 2, 1>>, <<1232, 1326, 2, 1>>,
  <<1329, 1366, 1, 48>>, <<4256, 4293, 1, 7264>>, <<4295, 4295, 1, 7264>>,
  <<4301, 4301, 1, 7264>>, <<5024, 5103, 1, 38864>>, <<5104, 5109, 1, 8>>,
  <<7312, 7354, 1, -3008>>, <<7357, 7359, 1, -3008>>, <<7680, 7828, 2, 1>>,
  <<7838, 7838, 1, -7615>>, <<7840, 7934, 2, 1>>, <<7944, 7951, 1, -8>>,
  <<7960, 7965, 1, -8>>, <<7976, 7983, 1, -8>>, <<7992, 7999, 1, -8>>,
  <<8008, 8013, 1, -8>>, <<8025, 8031, 2, -8>>, <<8040, 8047, 1, -8>>,
  <<8072, 8079, 1, -8>>, <<8088, 8095, 1, -8>>, <<8104, 8111, 1, -8>>,
  <<8120, 8121, 1, -8>>, <<8122, 8123, 1, -74>>, <<8124, 8124, 1, -9>>,
  <<8136, 8139, 1, -86>>, <<8140, 8140, 1, -9>>, <<8152, 8153, 1, -8>>,
  <<8154, 8155, 1, -100>>, <<8168, 8169, 1, -8>>, <<8170, 8171, 1, -112>>,
  <<8172, 8172, 1, -7>>, <<8184, 8185, 1, -128>>, <<8186, 8187, 1, -126>>,
  <<8188, 8188, 1, -9>>, <<8486, 8486, 1, -7517>>, <<8490, 8490, 1, -8383>>,
  <<8491, 8491, 1, -8262>>, <<8498, 8498, 1, 28>>, <<8544, 8559, 1, 16>>,
  <<8579, 8579, 1, 1>>, <<9398, 9423, 1, 26>>, <<11264, 11311, 1, 48>>,
  <<11360, 11360, 1, 1>>, <<11362, 11362, 1, -10743>>,
  <<11363, 11363, 1, -3814>>, <<11364, 11364, 1, -10727>>,
  <<11367, 11371, 2, 1>>, <<11373, 11373, 1, -10780>>,
  <<11374, 11374, 1, -10749>>, <<11375, 11375, 1, -10783>>,
  <<11376, 11376, 1, -10782>>, <<11378, 11378, 1, 1>>, <<11381, 11381, 1, 1>>,
  <<11390, 11391, 1, -10815>>, <<11392, 11490, 2, 1>>, <<11499, 11499, 1, 1>>,
  <<11501, 11501, 1, 1>>, <<11506, 11506, 1, 1>>, <<42560, 42604, 2, 1>>,
  <<42624, 42650, 2, 1>>, <<42786, 42798, 2, 1>>, <<42802, 42862, 2, 1>>,
  <<42873, 42873, 1, 1>>, <<42875, 42875, 1, 1>>, <<42877, 42877, 1, -35332>>,
  <<42878, 42886, 2, 1>>, <<42891, 42891, 1, 1>>, <<42893, 42893, 1, -42280>>,
  <<42896, 42896, 1, 1>>, <<42898, 42898, 1, 1>>, <<42902, 42920, 2, 1>>,
  <<42922, 42922, 1, -42308>>, <<42923, 42923, 1, -42319>>,
  <<42924, 42924, 1, -42315>>, <<42925, 42925, 1, -42305>>,
  <<42926, 42926, 1, -42308>>, <<42928, 42928, 1, -42258>>,
  <<42929, 42929, 1, -42282>>, <<42930, 42930, 1, -42261>>,
  <<42931, 42931, 1, 928>>, <<42932, 42946, 2, 1>>, <<42948, 42948, 1, -48>>,
  <<42949, 42949, 1, -42307>>, <<42950, 42950, 1, -35384>>,
  <<42951, 42951, 1, 1>>, <<42953, 42953, 1, 1>>, <<42960, 42960, 1, 1>>,
  <<42966, 42966, 1, 1>>, <<42968, 42968, 1, 1>>, <<42997, 42997, 1, 1>>,
  <<65313, 65338, 1, 32>>, <<66560, 66599, 1, 40>>, <<66736, 66771, 1, 40>>,
  <<66928, 66938, 1, 39>>, <<66940, 66954, 1, 39>>, <<66956, 66962, 1, 39>>,
  <<66964, 66965, 1, 39>>, <<68736, 68786, 1, 64>>, <<71840, 71871, 1, 32>>,
  <<93760, 93791, 1, 32>>, <<125184, 125217, 1, 34>> }

\* unicode.CaseRanges beyond Latin-1, upper-case column: the code points
\* from U+0100 on that unicode.ToUpper changes, as <<lo, hi, stride, delta>>
\* with delta the distance to the upper-case letter.
ToUpperRanges == {
  <<257, 303, 2, -1>>, <<305, 305, 1, -232>>, <<307, 311, 2, -1>>,
  <<314, 328, 2, -1>>, <<331, 375, 2, -1>>, <<378, 382, 2, -1>>,
  <<383, 383, 1, -300>>, <<384, 384, 1, 195>>, <<387, 387, 1, -1>>,
  <<389, 389, 1, -1>>, <<392, 392, 1, -1>>, <<396, 396, 1, -1>>,
  <<402, 402, 1, -1>>, <<405, 405, 1, 97>>, <<409, 409, 1, -1>>,
  <<410, 410, 1, 163>>, <<414, 414, 1, 130>>, <<417, 421, 2, -1>>,
  <<424, 424, 1, -1>>, <<429, 429, 1, -1>>, <<432, 432, 1, -1>>,
  <<436, 436, 1, -1>>, <<438, 438, 1, -1>>, <<441, 441, 1, -1>>,
  <<445, 445, 1, -1>>, <<447, 447, 1, 56>>, <<453, 453, 1, -1>>,
  <<454, 454, 1, -2>>, <<456, 456, 1, -1>>, <<457, 457, 1, -2>>,
  <<459, 459, 1, -1>>, <<460, 460, 1, -2>>, <<462, 476, 2, -1>>,
  <<477, 477, 1, -79>>, <<479, 495, 2, -1>>, <<498, 498, 1, -1>>,
  <<499, 499, 1, -2>>, <<501, 501, 1, -1>>, <<505, 543, 2, -1>>,
  <<547, 563, 2, -1>>, <<572, 572, 1, -1>>, <<575, 576, 1, 10815>>,
  <<578, 578, 1, -1>>, <<583, 591, 2, -1>>, <<592, 592, 1, 10783>>,
  <<593, 593, 1, 10780>>, <<594, 594, 1, 10782>>, <<595, 595, 1, -210>>,
  <<596, 596, 1, -206>>, <<598, 599, 1, -205>>, <<601, 601, 1, -202>>,
  <<603, 603, 1, -203>>, <<604, 604, 1, 42319>>, <<608, 608, 1, -205>>,
  <<609, 609, 1, 42315>>, <<611, 611, 1, -207>>, <<613, 613, 1, 42280>>,
  <<614, 614, 1, 42308>>, <<616, 616, 1, -209>>, <<617, 617, 1, -211>>,
  <<618, 618, 1, 42308>>, <<619, 619, 1, 10743>>, <<620, 620, 1, 42305>>,
  <<623, 623, 1, -211>>, <<625, 625, 1, 10749>>, <<626, 626, 1, -213>>,
  <<629, 629, 1, -214>>, <<637, 637, 1, 10727>>, <<640, 640, 1, -218>>,
  <<642, 642, 1, 42307>>, <<643, 643, 1, -218>>, <<647, 647, 1, 42282>>,
  <<648, 648, 1, -218>>, <<649, 649, 1, -69>>, <<650, 651, 1, -217>>,
  <<652, 652, 1, -71>>, <<658, 658, 1, -219>>, <<669, 669, 1, 42261>>,
  <<670, 670, 1, 42258>>, <<837, 837, 1, 84>>, <<881, 881, 1, -1>>,
  <<883, 883, 1, -1>>, <<887, 887, 1, -1>>, <<891, 893, 1, 130>>,
  <<940, 940, 1, -38>>, <<941, 943, 1, -37>>, <<945, 961, 1, -32>>,
  <<962, 962, 1, -31>>, <<963, 971, 1, -32>>, <<972, 972, 1, -64>>,
  <<973, 974, 1, -63>>, <<976, 976, 1, -62>>, <<977, 977, 1, -57>>,
  <<981, 981, 1, -47>>, <<982, 982, 1, -54>>, <<983, 983, 1, -8>>,
  <<985, 1007, 2, -1>>, <<1008, 1008, 1, -86>>, <<1009, 1009, 1, -80>>,
  <<1010, 1010, 1, 7>>, <<1011, 1011, 1, -116>>, <<1013, 1013, 1, -96>>,
  <<1016, 1016, 1, -1>>, <<1019, 1019, 1, -1>>, <<1072, 1103, 1, -32>>,
  <<1104, 1119, 1, -80>>, <<1121, 1153, 2, -1>>, <<1163, 1215, 2, -1>>,
  <<1218, 1230, 2, -1>>, <<1231, 1231, 1, -15>>, <<1233, 1327, 2, -1>>,
  <<1377, 1414, 1, -48>>, <<4304, 4346, 1, 3008>>, <<4349, 4351, 1, 3008>>,
  <<5112, 5117, 1, -8>>, <<7296, 7296, 1, -6254>>, <<7297, 7297, 1, -6253>>,
  <<7298, 7298, 1, -6244>>, <<7299, 7300, 1, -6242>>,
  <<7301, 7301, 1, -6243>>, <<7302, 7302, 1, -6236>>,
  <<7303, 7303, 1, -6181>>, <<7304, 7304, 1, 35266>>,
  <<7545, 7545, 1, 35332>>, <<7549, 7549, 1, 3814>>, <<7566, 7566, 1, 35384>>,
  <<7681, 7829, 2, -1>>, <<7835, 7835, 1, -59>>, <<7841, 7935, 2, -1>>,
  <<7936, 7943, 1, 8>>, <<7952, 7957, 1, 8>>, <<7968, 7975, 1, 8>>,
  <<7984, 7991, 1, 8>>, <<8000, 8005, 1, 8>>, <<8017, 8023, 2, 8>>,
  <<8032, 8039, 1, 8>>, <<8048, 8049, 1, 74>>, <<8050, 8053, 1, 86>>,
  <<8054, 8055, 1, 100>>, <<8056, 8057, 1, 128>>, <<8058, 8059, 1, 112>>,
  <<8060, 8061, 1, 126>>, <<8064, 8071, 1, 8>>, <<8080, 8087, 1, 8>>,
  <<8096, 8103, 1, 8>>, <<8112, 8113, 1, 8>>, <<8115, 8115, 1, 9>>,
  <<8126, 8126, 1, -7205>>, <<8131, 8131, 1, 9>>, <<8144, 8145, 1, 8>>,
  <<8160, 8161, 1, 8>>, <<8165, 8165, 1, 7>>, <<8179, 8179, 1, 9>>,
  <<8526, 8526, 1, -28>>, <<8560, 8575, 1, -16>>, <<8580, 8580, 1, -1>>,
  <<9424, 9449, 1, -26>>, <<11312, 11359, 1, -48>>, <<11361, 11361, 1, -1>>,
  <<11365, 11365, 1, -10795>>, <<11366, 11366, 1, -10792>>,
  <<11368, 11372, 2, -1>>, <<11379, 11379, 1, -1>>, <<11382, 11382, 1, -1>>,
  <<11393, 11491, 2, -1>>, <<11500, 11500, 1, -1>>, <<11502, 11502, 1, -1>>,
  <<11507, 11507, 1, -1>>, <<11520, 11557, 1, -7264>>,
  <<11559, 11559, 1, -7264>>, <<11565, 11565, 1, -7264>>,
  <<42561, 42605, 2, -1>>, <<42625, 42651, 2, -1>>, <<42787, 42799, 2, -1>>,
  <<42803, 42863, 2, -1>>, <<42874, 42874, 1, -1>>, <<42876, 42876, 1, -1>>,
  <<42879, 42887, 2, -1>>, <<42892, 42892, 1, -1>>, <<42897, 42897, 1, -1>>,
  <<42899, 42899, 1, -1>>, <<42900, 42900, 1, 48>>, <<42903, 42921, 2, -1>>,
  <<42933, 42947, 2, -1>>, <<42952, 42952, 1, -1>>, <<42954, 42954, 1, -1>>,
  <<42961, 42961, 1, -1>>, <<42967, 42967, 1, -1>>, <<42969, 42969, 1, -1>>,
  <<42998, 42998, 1, -1>>, <<43859, 43859, 1, -928>>,
  <<43888, 43967, 1, -38864>>, <<65345, 65370, 1, -32>>,
  <<66600, 66639, 1, -40>>, <<66776, 66811, 1, -40>>,
  <<66967, 66977, 1, -39>>, <<66979, 66993, 1, -39>>,
  <<66995, 67001, 1, -39>>, <<67003, 67004, 1, -39>>,
  <<68800, 68850, 1, -64>>, <<71872, 71903, 1, -32>>,
  <<93792, 93823, 1, -32>>, <<125218, 125251, 1, -34>> }

\* The delta a case table holds for r, 0 when r is in none of its ranges.
CaseDelta(ranges, r) ==
  IF \E t \in ranges : InRange(t, r)
    THEN (CHOOSE t \in ranges : InRange(t, r))[4]
    ELSE 0

\* unicode.IsUpper(r): the Latin-1 upper-case letters, then the table.
IsUpper(r) ==
  IF r <= 255
    THEN \/ (r >= 65 /\ r <= 90)
         \/ (r >= 192 /\ r <= 214) \/ (r >= 216 /\ r <= 222)
    ELSE \E t \in UpperRanges : InRange(t, r)

\* unicode.ToLower(r)
ToLower(r) ==
  IF r <= 255
    THEN IF IsUpper(r) THEN r + 32 ELSE r
    ELSE r + CaseDelta(ToLowerRanges, r)

\* unicode.ToUpper(r): U+00B5 and U+00FF have their upper-case letters
\* beyond Latin-1, U+00DF has none.
ToUpper(r) ==
  IF r > 255 THEN r + CaseDelta(ToUpperRanges, r)
  ELSE IF (r >= 97 /\ r <= 122) \/ (r >= 224 /\ r <= 246) \/ (r >= 248 /\ r <= 254)
    THEN r - 32
  ELSE IF r = 181 THEN 924
  ELSE IF r = 255 THEN 376
  ELSE r

(***************************************************************************)
(* Values of the program.                                                  *)
(***************************************************************************)

\* A *condition pointer: 0 is nil, a positive number is a heap address.
NilPtr == 0

\* type condition struct { key, keyParts, op, stringValue, nextAnd, nextOr }
condition(key, keyParts, op, stringValue, nextAnd, nextOr) ==
  [key |-> key, keyParts |-> keyParts, op |-> op, stringValue |-> stringValue,
   nextAnd |-> nextAnd, nextOr |-> nextOr]

\* condition{}
ZeroCondition == condition(<<>>, <<>>, <<>>, <<>>, NilPtr, NilPtr)

\* A nil ParseError.
NilError == [isNil |-> TRUE, message |-> "", position |-> 0, unparsable |-> <<>>]

\* NewParseError(message, position, unparsable)
NewParseError(message, position, unparsable) ==
  [isNil |-> FALSE, message |-> message, position |-> position,
   unparsable |-> unparsable]

\* filter{}: nil map, nil first condition.  An interface value that may be
\* nil is a sequence of length 0 (nil) or 1.
ZeroFilter == [m |-> <<>>, first |-> <<>>]

\* The result triple (value, position, error) of a parse routine.
Ret(v, i, err) == [v |-> v, i |-> i, err |-> err]

\* The separator tokens "AND" and "OR".
TokAND == <<65, 78, 68>>
TokOR == <<79, 82>>

\* The default operators of NewParser: "=" and "!=".
DefaultOps == {<<61>>, <<33, 61>>}

(***************************************************************************)
(* Name case transforms.                                                   *)
(***************************************************************************)

\* for _, c := range s: the runes of s, invalid bytes as U+FFFD.
RECURSIVE Runes(_, _)
Runes(s, i) ==
  IF i >= Len(s) THEN <<>>
  ELSE Let(DecodeRuneInString(s, i), LAMBDA d :
    <<d.r>> \o Runes(s, i + d.width))

\* Variant of snakeCaseFrom: an upper-case letter that follows an upper-case
\* letter gets an underscore too.
RECURSIVE snakeCaseEveryUpper(_, _, _)
snakeCaseEveryUpper(rs, k, underscore) ==
  IF k > Len(rs) THEN <<>>
  ELSE IF IsUpper(rs[k])
    THEN (IF ~underscore THEN <<95>> ELSE <<>>) \o EncodeRune(ToLower(rs[k]))
           \o snakeCaseEveryUpper(rs, k + 1, FALSE)
  ELSE EncodeRune(rs[k]) \o snakeCaseEveryUpper(rs, k + 1, rs[k] = 95)

RECURSIVE snakeCaseFrom(_, _, _)
snakeCaseFrom(rs, k, underscore) ==
  IF k > Len(rs) THEN <<>>
  ELSE IF IsUpper(rs[k])
    THEN (IF ~underscore THEN <<95>> ELSE <<>>) \o EncodeRune(ToLower(rs[k]))
           \o snakeCaseFrom(rs, k + 1, TRUE)
  ELSE EncodeRune(rs[k]) \o snakeCaseFrom(rs, k + 1, rs[k] = 95)

snakeCase(s) == snakeCaseFrom(Runes(s, 0), 1, TRUE)

RECURSIVE camelCaseFrom(_, _, _, _)
camelCaseFrom(rs, k, underscore, upper) ==
  IF k > Len(rs) THEN <<>>
  ELSE IF rs[k] = 95 THEN camelCaseFrom(rs, k + 1, TRUE, FALSE)
  ELSE IF underscore
    THEN EncodeRune(ToUpper(rs[k])) \o camelCaseFrom(rs, k + 1, FALSE, TRUE)
  ELSE (IF upper THEN EncodeRune(ToLower(rs[k])) ELSE EncodeRune(rs[k]))
         \o camelCaseFrom(rs, k + 1, underscore, IsUpper(rs[k]))

\* Variant of camelCase: the first character keeps its case.
camelCaseKeepFirst(s) == camelCaseFrom(Runes(s, 0), 1, FALSE, FALSE)

camelCase(s) == camelCaseFrom(Runes(s, 0), 1, FALSE, TRUE)

(***************************************************************************)
(* The parse routines.  p is the parser: [ops, snakeCase, camelCase].      *)
(***************************************************************************)

RECURSIVE spaceOrNonSpace(_, _, _)
spaceOrNonSpace(s, start, space) ==
  IF start >= Len(s) THEN start
  ELSE Let(DecodeRuneInString(s, start), LAMBDA d :
    IF IsSpace(d.r) # space THEN start
    ELSE spaceOrNonSpace(s, start + d.width, space))

\* Variant of parseSeparator: "AND" is the only separator token.
parseSeparatorAndOnly(s, start) ==
  Let(spaceOrNonSpace(s, start, TRUE), LAMBDA i :
    IF i = start
      THEN Ret(<<>>, i, NewParseError("expected a whitespace", i, From(s, i)))
    ELSE Let(spaceOrNonSpace(s, i, FALSE), LAMBDA j :
      IF Slice(s, i, j) # TokAND
        THEN Ret(<<>>, i,
                 NewParseError("expected a condition separator (AND, OR)", i,
                               From(s, i)))
      ELSE Let(spaceOrNonSpace(s, j, TRUE), LAMBDA k :
        IF k = j
          THEN Ret(<<>>, k, NewParseError("expected a whitespace", k, From(s, k)))
          ELSE Ret(Slice(s, i, j), k, NilError))))

\* Variant of parseSeparator: the token is compared without regard to case
\* ("and" and "or" are separators too, returned in upper case).
parseSeparatorAnyCase(s, start) ==
  Let(spaceOrNonSpace(s, start, TRUE), LAMBDA i :
    IF i = start
      THEN Ret(<<>>, i, NewParseError("expected a whitespace", i, From(s, i)))
    ELSE Let(spaceOrNonSpace(s, i, FALSE), LAMBDA j :
      IF Slice(s, i, j) \notin {TokAND, TokOR, <<97, 110, 100>>, <<111, 114>>}
        THEN Ret(<<>>, i,
                 NewParseError("expected a condition separator (AND, OR)", i,
                               From(s, i)))
      ELSE Let(spaceOrNonSpace(s, j, TRUE), LAMBDA k :
        IF k = j
          THEN Ret(<<>>, k, NewParseError("expected a whitespace", k, From(s, k)))
          ELSE Ret(IF Len(Slice(s, i, j)) = 3 THEN TokAND ELSE TokOR, k,
                   NilError))))

parseSeparator(s, start) ==
  Let(spaceOrNonSpace(s, start, TRUE), LAMBDA i :
    IF i = start
      THEN Ret(<<>>, i, NewParseError("expected a whitespace", i, From(s, i)))
    ELSE Let(spaceOrNonSpace(s, i, FALSE), LAMBDA j :
      IF ~(Slice(s, i, j) = TokAND \/ Slice(s, i, j) = TokOR)
        THEN Ret(<<>>, i,
                 NewParseError("expected a condition separator (AND, OR)", i,
                               From(s, i)))
      ELSE Let(spaceOrNonSpace(s, j, TRUE), LAMBDA k :
        IF k = j
          THEN Ret(<<>>, k, NewParseError("expected a whitespace", k, From(s, k)))
          ELSE Ret(Slice(s, i, j), k, NilError))))

\* The loop of parseName: the first index from i on that holds no letter,
\* number or '_' (each byte converted to a rune on its own).
RECURSIVE nameEnd(_, _)
nameEnd(s, i) ==
  IF i < Len(s) /\ (IsLetter(At(s, i)) \/ IsNumber(At(s, i)) \/ At(s, i) = 95)
    THEN nameEnd(s, i + 1)
    ELSE i

\* Variant of parseName: the errors carry the empty text s[start:start].
parseNameEmptyText(p, s, start) ==
  IF Len(s) = start
    THEN Ret(<<>>, start,
             NewParseError("unexpected end of string, expected a name", start, <<>>))
  ELSE IF ~IsLetter(At(s, start))
    THEN Ret(<<>>, start, NewParseError("name must start with letter", start, <<>>))
  ELSE Let(nameEnd(s, start + 1), LAMBDA i :
    IF p.snakeCase THEN Ret(snakeCase(Slice(s, start, i)), i, NilError)
    ELSE IF p.camelCase THEN Ret(camelCase(Slice(s, start, i)), i, NilError)
    ELSE Ret(Slice(s, start, i), i, NilError))

\* Variant of parseName: the cursor moves on by the length of the name
\* returned.
parseNameTransformedLength(p, s, start) ==
  IF Len(s) = start
    THEN Ret(<<>>, start,
             NewParseError("unexpected end of string, expected a name", start,
                           From(s, start)))
  ELSE IF ~IsLetter(At(s, start))
    THEN Ret(<<>>, start,
             NewParseError("name must start with letter", start, From(s, start)))
  ELSE Let(nameEnd(s, start + 1), LAMBDA i :
    IF p.snakeCase
      THEN Ret(snakeCase(Slice(s, start, i)),
               start + Len(snakeCase(Slice(s, start, i))), NilError)
    ELSE IF p.camelCase
      THEN Ret(camelCase(Slice(s, start, i)),
               start + Len(camelCase(Slice(s, start, i))), NilError)
    ELSE Ret(Slice(s, start, i), i, NilError))

parseName(p, s, start) ==
  IF Len(s) = start
    THEN Ret(<<>>, start,
             NewParseError("unexpected end of string, expected a name", start,
                           From(s, start)))
  ELSE IF ~IsLetter(At(s, start))
    THEN Ret(<<>>, start,
             NewParseError("name must start with letter", start, From(s, start)))
  ELSE Let(nameEnd(s, start + 1), LAMBDA i :
    IF p.snakeCase THEN Ret(snakeCase(Slice(s, start, i)), i, NilError)
    ELSE IF p.camelCase THEN Ret(camelCase(Slice(s, start, i)), i, NilError)
    ELSE Ret(Slice(s, start, i), i, NilError))

\* The loop of parseNameParts.
RECURSIVE namePartsLoop(_, _, _, _)
namePartsLoop(p, s, i, parts) ==
  IF i < Len(s) /\ At(s, i) = nameSeparator
    THEN Let(parseName(p, s, i + 1), LAMBDA n :
      IF ~n.err.isNil THEN Ret(<<>>, n.i, n.err)
      ELSE namePartsLoop(p, s, n.i, Append(parts, n.v)))
    ELSE Ret(parts, i, NilError)

parseNameParts(p, s, start) ==
  Let(parseName(p, s, start), LAMBDA n :
    IF ~n.err.isNil THEN Ret(<<>>, n.i, n.err)
    ELSE namePartsLoop(p, s, n.i, <<n.v>>))

\* strings.Join(parts, ".")
RECURSIVE Join(_)
Join(parts) ==
  IF Len(parts) = 0 THEN <<>>
  ELSE IF Len(parts) = 1 THEN parts[1]
  ELSE parts[1] \o <<nameSeparator>> \o Join(Tail(parts))

\* Variant of parseFullName: the key is the first part alone.
parseFullNameFirstPart(p, s, start) ==
  Let(parseNameParts(p, s, start), LAMBDA r :
    IF ~r.err.isNil THEN Ret([key |-> <<>>, keyParts |-> <<>>], r.i, r.err)
    ELSE Ret([key |-> r.v[1], keyParts |-> r.v], r.i, NilError))

\* The value is [key, keyParts].
parseFullName(p, s, start) ==
  Let(parseNameParts(p, s, start), LAMBDA r :
    IF ~r.err.isNil THEN Ret([key |-> <<>>, keyParts |-> <<>>], r.i, r.err)
    ELSE Ret([key |-> Join(r.v), keyParts |-> r.v], r.i, NilError))

\* Variant of operatorLoop: the longest registered operator wins.
RECURSIVE operatorLoopLongest(_, _, _, _)
operatorLoopLongest(p, s, start, i) ==
  IF i < Len(s)
    THEN Let(operatorLoopLongest(p, s, start, i + 1), LAMBDA longer :
      IF longer.err.isNil THEN longer
      ELSE IF Slice(s, start, i + 1) \in p.ops
        THEN Ret(Slice(s, start, i + 1), i + 1, NilError)
      ELSE longer)
    ELSE Ret(<<>>, i, NewParseError("expected operator", start, From(s, start)))

\* The loop of parseOperator, i being the length scanned so far.
RECURSIVE operatorLoop(_, _, _, _)
operatorLoop(p, s, start, i) ==
  IF i < Len(s)
    THEN IF Slice(s, start, i + 1) \in p.ops
           THEN Ret(Slice(s, start, i + 1), i + 1, NilError)
           ELSE operatorLoop(p, s, start, i + 1)
    ELSE Ret(<<>>, i, NewParseError("expected operator", start, From(s, start)))

parseOperator(p, s, start) == operatorLoop(p, s, start, start)

\* Variant of parseNormalValue: an empty bare value is an error.
parseNormalValueNonEmpty(p, s, start) ==
  Let(spaceOrNonSpace(s, start, FALSE), LAMBDA i :
    IF i = start
      THEN Ret(<<>>, start, NewParseError("expected a value", start, From(s, start)))
      ELSE Ret(Slice(s, start, i), i, NilError))

parseNormalValue(p, s, start) ==
  Let(spaceOrNonSpace(s, start, FALSE), LAMBDA i :
    Ret(Slice(s, start, i), i, NilError))

\* Variant of quotesEscapedLoop: an escaped character loses its backslash,
\* whatever it is.
RECURSIVE quotesEscapedLoopDropEscape(_, _, _, _)
quotesEscapedLoopDropEscape(s, i, escape, sb) ==
  IF i >= Len(s) THEN Ret(sb, i, NilError)
  ELSE Let(DecodeRuneInString(s, i), LAMBDA d :
    IF escape
      THEN quotesEscapedLoopDropEscape(s, i + d.width, FALSE, sb \o EncodeRune(d.r))
    ELSE IF d.r = quote THEN Ret(sb, i, NilError)
    ELSE IF d.r = escapeCharacter
      THEN quotesEscapedLoopDropEscape(s, i + d.width, TRUE, sb)
    ELSE quotesEscapedLoopDropEscape(s, i + d.width, FALSE, sb \o EncodeRune(d.r)))

\* Variant of quotesEscapedLoop: an escaped character keeps its backslash,
\* whatever it is.
RECURSIVE quotesEscapedLoopKeepEscape(_, _, _, _)
quotesEscapedLoopKeepEscape(s, i, escape, sb) ==
  IF i >= Len(s) THEN Ret(sb, i, NilError)
  ELSE Let(DecodeRuneInString(s, i), LAMBDA d :
    IF escape
      THEN quotesEscapedLoopKeepEscape(s, i + d.width, FALSE,
             sb \o EncodeRune(escapeCharacter) \o EncodeRune(d.r))
    ELSE IF d.r = quote THEN Ret(sb, i, NilError)
    ELSE IF d.r = escapeCharacter
      THEN quotesEscapedLoopKeepEscape(s, i + d.width, TRUE, sb)
    ELSE quotesEscapedLoopKeepEscape(s, i + d.width, FALSE, sb \o EncodeRune(d.r)))

\* The loop of parseQuotesEscaped from index i with the escape flag and the
\* builder's content sb.
RECURSIVE quotesEscapedLoop(_, _, _, _)
quotesEscapedLoop(s, i, escape, sb) ==
  IF i >= Len(s) THEN Ret(sb, i, NilError)
  ELSE Let(DecodeRuneInString(s, i), LAMBDA d :
    IF escape
      THEN IF d.r = quote \/ d.r = escapeCharacter
             THEN quotesEscapedLoop(s, i + d.width, FALSE, sb \o EncodeRune(d.r))
             ELSE quotesEscapedLoop(s, i + d.width, FALSE,
                    sb \o EncodeRune(escapeCharacter) \o EncodeRune(d.r))
    ELSE IF d.r = quote THEN Ret(sb, i, NilError)
    ELSE IF d.r = escapeCharacter
      THEN quotesEscapedLoop(s, i + d.width, TRUE, sb)
    ELSE quotesEscapedLoop(s, i + d.width, FALSE, sb \o EncodeRune(d.r)))

parseQuotesEscaped(p, s, start) == quotesEscapedLoop(s, start, FALSE, <<>>)

\* Variant of parseQuotedValue: the error of an unterminated value is
\* returned with the position 0.
parseQuotedValueRewind(p, s, start) ==
  Let(parseQuotesEscaped(p, s, start + 1), LAMBDA r :
    IF ~r.err.isNil THEN r
    ELSE IF Len(s) = r.i \/ At(s, r.i) # quote
      THEN Ret(<<>>, 0,
               NewParseError("unterminated quoted value", start, From(s, start)))
    ELSE Ret(r.v, r.i + 1, NilError))

parseQuotedValue(p, s, start) ==
  Let(parseQuotesEscaped(p, s, start + 1), LAMBDA r :
    IF ~r.err.isNil THEN r
    ELSE IF Len(s) = r.i \/ At(s, r.i) # quote
      THEN Ret(<<>>, start,
               NewParseError("unterminated quoted value", start, From(s, start)))
    ELSE Ret(r.v, r.i + 1, NilError))

parseValue(p, s, start) ==
  IF start = Len(s) THEN Ret(<<>>, start, NilError)
  ELSE IF At(s, start) = quote THEN parseQuotedValue(p, s, start)
  ELSE parseNormalValue(p, s, start)

parseCondition(p, s, start) ==
  Let(parseFullName(p, s, start), LAMBDA n :
    IF ~n.err.isNil THEN Ret(ZeroCondition, n.i, n.err)
    ELSE Let(parseOperator(p, s, n.i), LAMBDA o :
      IF ~o.err.isNil THEN Ret(ZeroCondition, o.i, o.err)
      ELSE Let(parseValue(p, s, o.i), LAMBDA v :
        IF ~v.err.isNil THEN Ret(ZeroCondition, v.i, v.err)
        ELSE Ret(condition(n.v.key, n.v.keyParts, o.v, v.v, NilPtr, NilPtr),
                 v.i, NilError))))

\* The address of the local variable cond of parseConditions, the only
\* variable whose address the parser takes (&cond).
CondAddr == 1

\* f.m[k] = append(f.m[k], c)
mapAppend(m, k, c) ==
  IF k \in DOMAIN m THEN [m EXCEPT ![k] = Append(@, c)] ELSE (k :> <<c>>) @@ m

\* Variant of link: the separator is ignored, every link is an AND link.
linkAndOnly(prev, sep, addr) == [prev EXCEPT !.nextAnd = addr]

\* if sep == "AND" { prev.nextAnd = &cond } else { prev.nextOr = &cond }
link(prev, sep, addr) ==
  IF sep = TokAND THEN [prev EXCEPT !.nextAnd = addr]
  ELSE [prev EXCEPT !.nextOr = addr]

\* The value of a successful parseConditions: the filter and the heap, which
\* holds the final value of the variable cond at CondAddr.
Built(f, heap) == [f |-> f, heap |-> heap]

\* The loop of parseConditions.  prev is a copy of the condition parsed
\* last; f.first was copied from cond before the loop.  Each iteration
\* overwrites the variable cond, so at the exit cond = prev.
RECURSIVE conditionsLoop(_, _, _, _, _, _)
conditionsLoop(p, s, start, i, prev, f) ==
  IF i < Len(s)
    THEN Let(parseSeparator(s, i), LAMBDA sp :
      IF ~sp.err.isNil THEN Ret(Built(ZeroFilter, <<>>), sp.i, sp.err)
      ELSE Let(parseCondition(p, s, sp.i), LAMBDA c :
        IF ~c.err.isNil THEN Ret(Built(ZeroFilter, <<>>), c.i, c.err)
        ELSE conditionsLoop(p, s, start, c.i, c.v,
               [f EXCEPT !.m = mapAppend(f.m, prev.key,
                                         link(prev, sp.v, CondAddr))])))
    ELSE Ret(Built([f EXCEPT !.m = mapAppend(f.m, prev.key, prev)], <<prev>>),
             start, NilError)

parseConditions(p, s, start) ==
  Let(parseCondition(p, s, start), LAMBDA c :
    IF ~c.err.isNil THEN Ret(Built(ZeroFilter, <<>>), c.i, c.err)
    ELSE IF c.i = Len(s)
      THEN Ret(Built([m |-> (c.v.key :> <<c.v>>), first |-> <<c.v>>], <<c.v>>),
               c.i, NilError)
    ELSE conditionsLoop(p, s, start, c.i, c.v, [m |-> <<>>, first |-> <<c.v>>]))

\* Variant of Parse: no special case for the empty string.
ParseNoEmptyCase(p, s) ==
  Let(parseConditions(p, s, 0), LAMBDA r :
    IF ~r.err.isNil THEN [filter |-> <<>>, err |-> r.err, heap |-> <<>>]
    ELSE [filter |-> <<r.v.f>>, err |-> NilError, heap |-> r.v.heap])

\* Variant of Parse: the filter of parseConditions is returned with the error.
ParseReturnsBoth(p, s) ==
  IF Len(s) = 0
    THEN [filter |-> <<ZeroFilter>>, err |-> NilError, heap |-> <<>>]
  ELSE Let(parseConditions(p, s, 0), LAMBDA r :
    [filter |-> <<r.v.f>>, err |-> r.err, heap |-> r.v.heap])

\* Parser.Parse: the returned Filter (nil: <<>>), the returned ParseError and
\* the heap the Filter's pointers refer to.
Parse(p, s) ==
  IF Len(s) = 0
    THEN [filter |-> <<ZeroFilter>>, err |-> NilError, heap |-> <<>>]
  ELSE Let(parseConditions(p, s, 0), LAMBDA r :
    IF ~r.err.isNil THEN [filter |-> <<>>, err |-> r.err, heap |-> <<>>]
    ELSE [filter |-> <<r.v.f>>, err |-> NilError, heap |-> r.v.heap])

(***************************************************************************)
(* Accessors of Condition and Filter.  h is the heap; a Condition that may *)
(* be nil is a sequence of length 0 or 1.                                  *)
(***************************************************************************)

\* condition.And
And(c, h) == IF c.nextAnd = NilPtr THEN <<>> ELSE <<h[c.nextAnd]>>

\* condition.Or
Or(c, h) == IF c.nextOr = NilPtr THEN <<>> ELSE <<h[c.nextOr]>>

\* condition.AndOr
AndOr(c, h) == <<And(c, h), Or(c, h)>>

\* filter.First
First(f) == f.first

\* filter.Len
FilterLen(f) == Cardinality(DOMAIN f.m)

\* filter.Get: the conditions and the ok flag.
Get(f, k) ==
  IF k \in DOMAIN f.m THEN [cs |-> f.m[k], ok |-> TRUE]
  ELSE [cs |-> <<>>, ok |-> FALSE]

\* filter.GetFirst
GetFirst(f, k) ==
  IF k \in DOMAIN f.m THEN [c |-> <<f.m[k][1]>>, ok |-> TRUE]
  ELSE [c |-> <<>>, ok |-> FALSE]

\* Variant of GetLast: the first condition of the key is returned.
GetLastIsFirst(f, k) ==
  IF k \in DOMAIN f.m THEN [c |-> <<f.m[k][1]>>, ok |-> TRUE]
  ELSE [c |-> <<>>, ok |-> FALSE]

\* filter.GetLast
GetLast(f, k) ==
  IF k \in DOMAIN f.m THEN [c |-> <<f.m[k][Len(f.m[k])]>>, ok |-> TRUE]
  ELSE [c |-> <<>>, ok |-> FALSE]

\* The loop of filter.Conditions from condition c on.
RECURSIVE walk(_, _)
walk(c, h) ==
  Let(AndOr(c, h), LAMBDA ao :
    IF ao[1] # <<>> THEN <<c>> \o walk(ao[1][1], h)
    ELSE IF ao[2] # <<>> THEN <<c>> \o walk(ao[2][1], h)
    ELSE <<c>>)

\* filter.Conditions
Conditions(f, h) == IF First(f) = <<>> THEN <<>> ELSE walk(First(f)[1], h)

(***************************************************************************)
(* Inputs.  A caller builds a filter string from the grammar (a derivation *)
(* of condition tokens joined by separators) or passes an arbitrary string *)
(* (a concatenation of fragments).                                         *)
(***************************************************************************)

\* Escaping of a value for a quoted literal: '\' becomes '\\', '"' becomes '\"'.
RECURSIVE Escape(_)
Escape(v) ==
  IF Len(v) = 0 THEN <<>>
  ELSE (IF v[1] = quote \/ v[1] = escapeCharacter
          THEN <<escapeCharacter, v[1]>> ELSE <<v[1]>>) \o Escape(Tail(v))

Token(parts, op, value, quoted) ==
  [parts |-> parts, op |-> op, value |-> value, quoted |-> quoted]

\* a=1   bC.d_e!=   a="q \"\\"   e-acute=1 (a two-byte letter)
CondTokens ==
  { Token(<<(<<97>>)>>, <<61>>, <<49>>, FALSE),
    Token(<<(<<98, 67>>), (<<100, 95, 101>>)>>, <<33, 61>>, <<>>, FALSE),
    Token(<<(<<97>>)>>, <<61>>, <<113, 32, 34, 92>>, TRUE),
    Token(<<(<<195, 169>>)>>, <<61>>, <<49>>, FALSE) }

SepTokens == {TokAND, TokOR}

\* The text of a condition token.
TokenText(t) ==
  Join(t.parts) \o t.op
    \o (IF t.quoted THEN <<quote>> \o Escape(t.value) \o <<quote>> ELSE t.value)

\* A derivation: conditions, each but the last followed by a separator
\* (sep of the last item is <<>>).
Item(tok, sep) == [tok |-> tok, sep |-> sep]

Derivations ==
  UNION { { d \in [1..n -> [tok : CondTokens, sep : SepTokens \cup {<<>>}]] :
              \A j \in 1..n : (d[j].sep = <<>>) <=> (j = n) } : n \in 1..MaxConds }

RECURSIVE Render(_)
Render(d) ==
  IF Len(d) = 0 THEN <<>>
  ELSE TokenText(d[1].tok)
         \o (IF d[1].sep = <<>> THEN <<>> ELSE <<32>> \o d[1].sep \o <<32>>)
         \o Render(Tail(d))

\* a 1 = space " AND and the bytes 0xC2 and 0xA9, each on its own
\* (together the copyright sign, apart not valid UTF-8).
Fragments ==
  { <<97>>, <<49>>, <<61>>, <<32>>, <<34>>,
    <<65, 78, 68>>, <<194>>, <<169>> }

FragmentLists == UNION { [1..n -> Fragments] : n \in 0..MaxLen }

RECURSIVE Concat(_)
Concat(fs) == IF Len(fs) = 0 THEN <<>> ELSE fs[1] \o Concat(Tail(fs))

\* What a caller may put between two conditions: nothing, one space, a token
\* with one side bare, the two separators, their lower-case forms, runs of
\* mixed whitespace, no-break spaces (0xC2 0xA0), two tokens glued or
\* spaced, other tokens.
Gaps ==
  { <<>>, <<32>>, <<32, 65, 78, 68>>, <<65, 78, 68, 32>>,
    <<32, 65, 78, 68, 32>>, <<32, 79, 82, 32>>,
    <<32, 97, 110, 100, 32>>, <<32, 111, 114, 32>>,
    <<32, 32, 65, 78, 68, 9>>, <<10, 79, 82, 32, 32>>,
    <<194, 160, 65, 78, 68, 194, 160>>,
    <<32, 65, 78, 68, 79, 82, 32>>, <<32, 65, 78, 68, 32, 79, 82, 32>>,
    <<32, 38, 38, 32>>, <<32, 65, 78, 32>>, <<32, 79, 82>> }

\* The text after the opening quote of a quoted value: up to MaxLen symbols
\* out of x, '"', '\', space and the bytes 0xC3 and 0xA9 (together e-acute,
\* apart not valid UTF-8).
QuotedAlphabet == {120, 34, 92, 32, 195, 169}

QuotedBodies == UNION { [1..n -> QuotedAlphabet] : n \in 0..MaxLen }

\* a="
QuotedHead == <<97, 61, 34>>

\* The names a caller writes: up to MaxLen symbols out of a, B, '_', '.' and
\* the bytes 0xC3 and 0xAA (together e-circumflex, a letter; apart not
\* valid UTF-8, though letters when read as code points of their own).
NameAlphabet == {97, 66, 95, 46, 195, 170}

\* Names with a letter beyond Latin-1: U+0132 (bytes 0xC4 0xB2, upper case)
\* and U+0133 (bytes 0xC4 0xB3, its lower case).  Read as code points of
\* their own, 0xC4 is a letter and 0xB2, 0xB3 are numbers.
WideNames ==
  { <<196, 178>>, <<196, 179>>, <<97, 196, 178>>, <<97, 95, 196, 179>> }

NameTexts ==
  UNION { [1..n -> NameAlphabet] : n \in 1..MaxLen } \cup WideNames

\* =1
NameTail == <<61, 49>>

\* Operator sets of parsers built as a struct literal, as the tests do:
\* the default set, and "=" with "==".
OpsChoices == { DefaultOps, {<<61>>, <<61, 61>>} }

\* The option lists handed to NewParser.
OptionLists ==
  { <<>>, <<"snake">>, <<"camel">>, <<"snake", "camel">>, <<"camel", "snake">> }

(***************************************************************************)
(* Iterators (iterator.go): channels, errors, the iterator struct and the  *)
(* two halves of iterator.Next.  The type parameter of an iterator is int  *)
(* or []int; a slice is the sequence of its elements, the nil slice and    *)
(* the empty one both <<>>.                                                *)
(***************************************************************************)

\* The longest slice, map or run of values of a polled function.
MaxItems == 2

\* The number of calls of Next the caller makes.
MaxCalls == 4

\* The values that are iterated over, and *new(T).
ItemValues == {1, 2}

Zero == 0

ItemLists == UNION { [1..n -> ItemValues] : n \in 0..MaxItems }

\* The slices that are iterated over where the values are slices, and what
\* a slice, a map or a polled function holds of them.
Slices == { <<>>, <<1>>, <<2>>, <<1, 2>> }

SliceLists == UNION { [1..n -> Slices] : n \in 0..MaxItems }

\* *new(T) for T = int and for T = []int.
ZeroOf(elem) == IF elem = "slice" THEN <<>> ELSE Zero

\* Errors: nil, Done (errors.New("done")), and an error of the caller's.
NilErr == "nil"

Done == "done"

Oops == "oh noes"

\* make(chan T, cap), and a channel variable before any make.
Chan(cap) == [buf |-> <<>>, cap |-> cap, closed |-> FALSE]

NoChan == Chan(0)

\* close(c)
Close(c) == [c EXCEPT !.closed = TRUE]

\* c <- v can proceed (no receiver ever waits on the channels sent to, so
\* a send needs room in the buffer).
CanSend(c) == ~c.closed /\ Len(c.buf) < c.cap

Send(c, v) == [c EXCEPT !.buf = Append(@, v)]

\* The channels of the program, by the name of the variable that holds them:
\* ch and errCh of Empty, ForMap, ForSlice and ForFunc, in and inErrs of
\* channelsFromIterator (there named ch and errCh), wch and werrCh for ch
\* and errCh of WithContext, fch and ferrCh for ch and errCh of Flatten,
\* and the package variable closedErrCh.
ChanIds ==
  {"ch", "errCh", "in", "inErrs", "wch", "werrCh", "fch", "ferrCh",
   "closedErrCh"}

\* &iterator[T]{next: next, errs: errs}, with zero for *new(T); next = ""
\* where there is none yet.
Iterator(next, errs, zero) ==
  [next |-> next, errs |-> errs, err |-> NilErr, zero |-> zero]

NoIterator == Iterator("", "", Zero)

\* Variant of nextRecv: the error kept in it.err is not looked at.
nextRecvNoCache(it, c) ==
  IF Len(c.buf) > 0
    THEN [v |-> Head(c.buf), err |-> NilErr,
          c |-> [c EXCEPT !.buf = Tail(@)], select |-> FALSE]
  ELSE [v |-> it.zero, err |-> NilErr, c |-> c, select |-> TRUE]

\* iterator.Next up to and including n, ok := <-it.next, with c the channel
\* it.next: what is returned (v, err), the channel afterwards, and whether
\* the call goes on to the select (the channel was closed and empty).
nextRecv(it, c) ==
  IF it.err # NilErr
    THEN [v |-> it.zero, err |-> it.err, c |-> c, select |-> FALSE]
  ELSE IF Len(c.buf) > 0
    THEN [v |-> Head(c.buf), err |-> NilErr,
          c |-> [c EXCEPT !.buf = Tail(@)], select |-> FALSE]
  ELSE [v |-> it.zero, err |-> NilErr, c |-> c, select |-> TRUE]

\* The first half of Next does not block: an error is kept, or the channel
\* holds a value, or it is closed.
nextReady(it, c) == it.err # NilErr \/ Len(c.buf) > 0 \/ c.closed

\* The select of iterator.Next on e, the channel it.errs: an error that is
\* waiting is taken; a closed channel and an empty open one (the default
\* case) both give Done.
nextSelect(e) ==
  IF Len(e.buf) > 0
    THEN [err |-> Head(e.buf), e |-> [e EXCEPT !.buf = Tail(@)]]
    ELSE [err |-> Done, e |-> e]

\* Variant of forFuncAfter: the channel of values is closed before the
\* error is sent.
forFuncAfterCloseFirst(at) ==
  CASE at = "call" -> "closech"
    [] at = "closech" -> "senderr"
    [] at = "senderr" -> "closeerr"
    [] OTHER -> "done"

\* The goroutine of ForFunc once f has returned an error: errCh <- err,
\* close(ch), close(errCh), return.
forFuncAfter(at) ==
  CASE at = "call" -> "senderr"
    [] at = "senderr" -> "closech"
    [] at = "closech" -> "closeerr"
    [] OTHER -> "done"

\* The goroutine of Flatten once it.Next() has returned (us, err), k
\* elements of us sent: an error other than Done is sent and the loop left;
\* else the elements of us are sent one by one, and after them the loop is
\* left on Done and goes round otherwise.
flattenAfter(us, err, k) ==
  IF err # NilErr /\ err # Done THEN "senderr"
  ELSE IF k < Len(us) THEN "sendv"
  ELSE IF err = Done THEN "closeerr"
  ELSE "next"

\* A goroutine (or the caller of Next): where it is, its locals v and err
\* (us and err in Flatten), and the number of values it has taken from its
\* source (in Flatten: sent of us).
Goroutine(at) == [pc |-> at, v |-> Zero, err |-> NilErr, k |-> 0]

(***************************************************************************)
(* State.                                                                  *)
(***************************************************************************)
VARIABLES
  pc,          \* "new", "ready" (a parser exists), "panicked", "parsed" (Parse
               \* returned), then "used" (methods were called), "scribbled"
               \* (a slice of Keys, Values or Conditions was written into),
               \* "written" (a slice of Get or KeyParts was written into)
  parser,      \* the parser struct: ops, snakeCase, camelCase
  input,       \* the string given to Parse
  derivation,  \* the derivation the caller built input from, <<>> if none
  filter,      \* the Filter returned by Parse (<<>>: nil)
  err,         \* the ParseError returned by Parse
  heap,        \* the memory the returned conditions point into
  source,      \* what the iterator was made from: kind, type of the values
               \* (elem: "int" or "slice"), values, final error
  chans,       \* the channels: buffer, capacity, closed
  its,         \* the iterator structs: next, errs (channel names), err
  gor,         \* the goroutines and the caller of Next: position and locals
  ctx,         \* the context given to WithContext
  calls        \* what the calls of Next returned to the caller, in order

parseVars == <<pc, parser, input, derivation, filter, err, heap>>

iterVars == <<source, chans, its, gor, ctx, calls>>

vars == <<parseVars, iterVars>>

ZeroParser == [ops |-> {}, snakeCase |-> FALSE, camelCase |-> FALSE]

\* The conditions of a successfully parsed input s from the condition start
\* st on, in input order: the key, where the value starts (the end of the
\* operator) and where the condition ends.
RECURSIVE CondSeq(_, _)
CondSeq(s, st) ==
  Let(parseCondition(parser, s, st), LAMBDA c :
    IF ~c.err.isNil THEN <<>>
    ELSE <<[key |-> c.v.key,
            vstart |-> parseOperator(parser, s, parseFullName(parser, s, st).i).i,
            end |-> c.i]>>
           \o (IF c.i < Len(s) /\ parseSeparator(s, c.i).err.isNil
                 THEN CondSeq(s, parseSeparator(s, c.i).i)
                 ELSE <<>>))

\* The number of conditions among the first j of cs that have the key of
\* the j-th.
Rank(cs, j) == Cardinality({ i \in 1..j : cs[i].key = cs[j].key })

\* The condition the index holds for the j-th condition of the input.
IndexedCond(cs, j) == filter[1].m[cs[j].key][Rank(cs, j)]

Init ==
  /\ pc = "new"
  /\ parser = ZeroParser
  /\ input = <<>>
  /\ derivation = <<>>
  /\ filter = <<>>
  /\ err = NilError
  /\ heap = <<>>
  /\ source = [kind |-> "none", elem |-> "int", xs |-> <<>>, e |-> NilErr]
  /\ chans = [c \in ChanIds |-> IF c = "closedErrCh" THEN Close(NoChan) ELSE NoChan]
  /\ its = [n \in {"base", "ctx", "flat"} |-> NoIterator]
  /\ gor = [g \in {"prod", "A", "B", "F", "cons"} |->
              Goroutine(IF g = "cons" THEN "idle" ELSE "none")]
  /\ ctx = "none"
  /\ calls = <<>>

\* Variant of Apply: a naming option replaces the one set before.
ApplyExclusive(opt, p) ==
  IF opt = "snake" THEN [p EXCEPT !.snakeCase = TRUE, !.camelCase = FALSE]
  ELSE [p EXCEPT !.camelCase = TRUE, !.snakeCase = FALSE]

\* Option.Apply
Apply(opt, p) ==
  IF opt = "snake" THEN [p EXCEPT !.snakeCase = TRUE]
  ELSE [p EXCEPT !.camelCase = TRUE]

RECURSIVE applyAll(_, _)
applyAll(options, p) ==
  IF Len(options) = 0 THEN p ELSE applyAll(Tail(options), Apply(options[1], p))

\* The outcome of NewParser(options...): a panic, or the parser returned.
NewParserOutcome(options) ==
  Let(applyAll(options, [ZeroParser EXCEPT !.ops = DefaultOps]), LAMBDA f :
    IF f.camelCase /\ f.snakeCase
      THEN [panic |-> TRUE, parser |-> ZeroParser]
      ELSE [panic |-> FALSE, parser |-> f])

\* NewParser(options...): panics on conflicting options.
NewParser ==
  /\ pc = "new"
  /\ \E options \in OptionLists :
       IF NewParserOutcome(options).panic
         THEN pc' = "panicked" /\ parser' = parser
         ELSE pc' = "ready" /\ parser' = NewParserOutcome(options).parser
  /\ UNCHANGED <<input, derivation, filter, err, heap>>
  /\ UNCHANGED iterVars

\* &parser{ops: ops}: construction inside the package, as the tests do.
NewParserLiteral ==
  /\ pc = "new"
  /\ \E ops \in OpsChoices : parser' = [ZeroParser EXCEPT !.ops = ops]
  /\ pc' = "ready"
  /\ UNCHANGED <<input, derivation, filter, err, heap>>
  /\ UNCHANGED iterVars

\* The call Parse(s) and the state it returns to the caller.
Returned(s, d, r) ==
  /\ input' = s
  /\ derivation' = d
  /\ filter' = r.filter
  /\ err' = r.err
  /\ heap' = r.heap
  /\ pc' = "parsed"
  /\ UNCHANGED parser
  /\ UNCHANGED iterVars

\* Parse of a string built from the grammar.
ParseDerived ==
  /\ pc = "ready"
  /\ parser.ops = DefaultOps
  /\ \E d \in Derivations : Returned(Render(d), d, Parse(parser, Render(d)))

\* Parse of an arbitrary string.
ParseAny ==
  /\ pc = "ready"
  /\ ~parser.snakeCase /\ ~parser.camelCase
  /\ \E fs \in FragmentLists : Returned(Concat(fs), <<>>, Parse(parser, Concat(fs)))

\* Parse of two conditions with an arbitrary text between them.
ParseJoined ==
  /\ pc = "ready"
  /\ parser.ops = DefaultOps
  /\ \E t1 \in CondTokens, t2 \in CondTokens, g \in Gaps :
       Returned(TokenText(t1) \o g \o TokenText(t2), <<>>,
                Parse(parser, TokenText(t1) \o g \o TokenText(t2)))

\* Parse of a condition whose value opens with a quote.
ParseQuoted ==
  /\ pc = "ready"
  /\ parser.ops = DefaultOps
  /\ \E b \in QuotedBodies :
       Returned(QuotedHead \o b, <<>>, Parse(parser, QuotedHead \o b))

\* Parse of one condition with an arbitrary text for its name.
ParseNamed ==
  /\ pc = "ready"
  /\ parser.ops = DefaultOps
  /\ \E n \in NameTexts :
       Returned(n \o NameTail, <<>>, Parse(parser, n \o NameTail))

\* The caller holds a Filter that nothing was written into.
Intact == pc \in {"parsed", "used", "scribbled"} /\ filter # <<>>

\* What a caller writes into a slice it was given: the string "z", the
\* condition NewCondition("z", []string{"z"}, "=", "").
Z == <<122>>

NewCondition(key, keyParts, op, stringValue) ==
  condition(key, keyParts, op, stringValue, NilPtr, NilPtr)

\* A call of Get, GetFirst, GetLast, Keys, Values, Len, First, Conditions,
\* Key, KeyParts, Op, StringValue, And, Or or AndOr: the receivers are
\* values, the methods assign to nothing the Filter holds.
Read ==
  /\ pc \in {"parsed", "used", "scribbled", "written"} /\ filter # <<>>
  /\ pc' = IF pc = "parsed" THEN "used" ELSE pc
  /\ UNCHANGED <<parser, input, derivation, filter, err, heap>>
  /\ UNCHANGED iterVars

\* Variant of WriteValues: Values hands out the slice of the index.
WriteValuesAliased(f, k, n, c) == [f EXCEPT !.m[k][n] = c]

\* ys := f.Values(); ys[..] = c, for the element that came from f.m[k][n]:
\* Values appends to a new slice, the index is not written.  The same holds
\* for the slices of Keys and Conditions.
WriteValues(f, k, n, c) == f

WriteFresh ==
  /\ Intact
  /\ \E k \in DOMAIN filter[1].m : \E n \in 1..Len(filter[1].m[k]) :
       filter' = <<WriteValues(filter[1], k, n, NewCondition(Z, <<Z>>, <<61>>, <<>>))>>
  /\ pc' = "scribbled"
  /\ UNCHANGED <<parser, input, derivation, err, heap>>
  /\ UNCHANGED iterVars

\* cs, _ := f.Get(k); cs[n-1] = c: Get returns the slice stored in the
\* index, so the element of the index is replaced.
WriteGet ==
  /\ Intact
  /\ \E k \in DOMAIN filter[1].m : \E n \in 1..Len(filter[1].m[k]) :
       filter' = <<[filter[1] EXCEPT
                      !.m[k][n] = NewCondition(Z, <<Z>>, <<61>>, <<>>)]>>
  /\ pc' = "written"
  /\ UNCHANGED <<parser, input, derivation, err, heap>>
  /\ UNCHANGED iterVars

\* The state after c.KeyParts()[i-1] = "z" for the j-th condition parsed:
\* KeyParts returns the slice of the condition, whose array is shared by
\* every copy of that condition: the one in the index, f.first for the
\* first condition, the variable cond for the last one.
KeyPartsWritten(cs, j, i) ==
  /\ filter' =
       <<[m |-> [filter[1].m EXCEPT ![cs[j].key][Rank(cs, j)].keyParts[i] = Z],
          first |-> IF j = 1
                      THEN <<[filter[1].first[1] EXCEPT !.keyParts[i] = Z]>>
                      ELSE filter[1].first]>>
  /\ heap' = IF j = Len(cs) THEN <<[heap[1] EXCEPT !.keyParts[i] = Z]>> ELSE heap

WriteKeyParts ==
  /\ Intact
  /\ filter[1].first # <<>>
  /\ \E j \in 1..Len(CondSeq(input, 0)) :
       \E i \in 1..Len(IndexedCond(CondSeq(input, 0), j).keyParts) :
         KeyPartsWritten(CondSeq(input, 0), j, i)
  /\ pc' = "written"
  /\ UNCHANGED <<parser, input, derivation, err>>
  /\ UNCHANGED iterVars

Next ==
  \/ NewParser
  \/ NewParserLiteral
  \/ ParseDerived
  \/ ParseAny
  \/ ParseJoined
  \/ ParseQuoted
  \/ ParseNamed
  \/ Read
  \/ WriteFresh
  \/ WriteGet
  \/ WriteKeyParts

Spec == Init /\ [][Next]_vars

\* The parser alone: parsers are made and Parse is called, and nothing is
\* done with what Parse returns.
ParseNext ==
  \/ NewParser
  \/ NewParserLiteral
  \/ ParseDerived
  \/ ParseAny
  \/ ParseJoined
  \/ ParseQuoted
  \/ ParseNamed

ParseSpec == Init /\ [][ParseNext]_vars

(***************************************************************************)
(* The iterators at work: the constructors, the goroutines they start, the *)
(* caller of Next.  A step of a goroutine is one channel operation, one    *)
(* call of the polled function, or one half of a call of Next.             *)
(***************************************************************************)

\* The iterator the caller calls Next on: the one WithContext or Flatten
\* returned, if there is one.
Top ==
  IF its["ctx"].next # "" THEN "ctx"
  ELSE IF its["flat"].next # "" THEN "flat"
  ELSE "base"

\* Empty[T](): the channels and the iterator returned.
Empty(cs, zero) ==
  [chans |-> [cs EXCEPT !["ch"] = Close(Chan(0))],
   it |-> Iterator("ch", "closedErrCh", zero)]

\* ForSlice(xs) for xs of type []T, elem telling T.
ForSliceOf(xs, elem) ==
  /\ source' = [kind |-> "slice", elem |-> elem, xs |-> xs, e |-> Done]
  /\ IF Len(xs) = 0
       THEN /\ chans' = Empty(chans, ZeroOf(elem)).chans
            /\ its' = [its EXCEPT !["base"] = Empty(chans, ZeroOf(elem)).it]
       ELSE /\ chans' = [chans EXCEPT
                           !["ch"] = Close([buf |-> xs, cap |-> Len(xs),
                                            closed |-> FALSE])]
            /\ its' = [its EXCEPT
                         !["base"] = Iterator("ch", "closedErrCh", ZeroOf(elem))]

\* ForSlice(xs), of ints or of slices.
ForSlice ==
  /\ source.kind = "none"
  /\ \/ \E xs \in ItemLists : ForSliceOf(xs, "int")
     \/ \E xs \in SliceLists : ForSliceOf(xs, "slice")
  /\ UNCHANGED <<gor, ctx, calls>>
  /\ UNCHANGED parseVars

\* ForMap(m) for m of type map[K]T, xs being the values of m in the order
\* range visits them.
ForMapOf(xs, elem) ==
  /\ source' = [kind |-> "map", elem |-> elem, xs |-> xs, e |-> Done]
  /\ IF Len(xs) = 0
       THEN /\ chans' = Empty(chans, ZeroOf(elem)).chans
            /\ its' = [its EXCEPT !["base"] = Empty(chans, ZeroOf(elem)).it]
            /\ gor' = gor
       ELSE /\ chans' = [chans EXCEPT !["ch"] = Chan(1), !["errCh"] = Chan(0)]
            /\ its' = [its EXCEPT
                         !["base"] = Iterator("ch", "errCh", ZeroOf(elem))]
            /\ gor' = [gor EXCEPT !["prod"] = Goroutine("range")]

\* ForMap(m), of ints or of slices.
ForMap ==
  /\ source.kind = "none"
  /\ \/ \E xs \in ItemLists : ForMapOf(xs, "int")
     \/ \E xs \in SliceLists : ForMapOf(xs, "slice")
  /\ UNCHANGED <<ctx, calls>>
  /\ UNCHANGED parseVars

\* ForFunc(f) for f of type func() (T, error), f returning the values xs
\* one by one and then the error e.
ForFuncOf(xs, elem, e) ==
  /\ source' = [kind |-> "func", elem |-> elem, xs |-> xs, e |-> e]
  /\ chans' = [chans EXCEPT !["ch"] = Chan(1), !["errCh"] = Chan(1)]
  /\ its' = [its EXCEPT !["base"] = Iterator("ch", "errCh", ZeroOf(elem))]
  /\ gor' = [gor EXCEPT !["prod"] = Goroutine("call")]

\* ForFunc(f), of ints or of slices.
ForFunc ==
  /\ source.kind = "none"
  /\ \/ \E xs \in ItemLists, e \in {Done, Oops} : ForFuncOf(xs, "int", e)
     \/ \E xs \in SliceLists, e \in {Done, Oops} : ForFuncOf(xs, "slice", e)
  /\ UNCHANGED <<ctx, calls>>
  /\ UNCHANGED parseVars

\* The goroutine of ForFunc: v, err := f()
FuncCall ==
  /\ source.kind = "func" /\ gor["prod"].pc = "call"
  /\ gor' = [gor EXCEPT !["prod"] =
              IF @.k < Len(source.xs)
                THEN [pc |-> "sendv", v |-> source.xs[@.k + 1], err |-> NilErr,
                      k |-> @.k + 1]
                ELSE [pc |-> forFuncAfter("call"), v |-> ZeroOf(source.elem),
                      err |-> source.e, k |-> @.k]]
  /\ UNCHANGED <<source, chans, its, ctx, calls>>
  /\ UNCHANGED parseVars

\* ch <- v
FuncSendValue ==
  /\ source.kind = "func" /\ gor["prod"].pc = "sendv"
  /\ CanSend(chans["ch"])
  /\ chans' = [chans EXCEPT !["ch"] = Send(@, gor["prod"].v)]
  /\ gor' = [gor EXCEPT !["prod"].pc = "call"]
  /\ UNCHANGED <<source, its, ctx, calls>>
  /\ UNCHANGED parseVars

\* errCh <- err
FuncSendError ==
  /\ source.kind = "func" /\ gor["prod"].pc = "senderr"
  /\ CanSend(chans["errCh"])
  /\ chans' = [chans EXCEPT !["errCh"] = Send(@, gor["prod"].err)]
  /\ gor' = [gor EXCEPT !["prod"].pc = forFuncAfter("senderr")]
  /\ UNCHANGED <<source, its, ctx, calls>>
  /\ UNCHANGED parseVars

\* close(ch)
FuncCloseCh ==
  /\ source.kind = "func" /\ gor["prod"].pc = "closech"
  /\ chans' = [chans EXCEPT !["ch"] = Close(@)]
  /\ gor' = [gor EXCEPT !["prod"].pc = forFuncAfter("closech")]
  /\ UNCHANGED <<source, its, ctx, calls>>
  /\ UNCHANGED parseVars

\* close(errCh)
FuncCloseErrCh ==
  /\ source.kind = "func" /\ gor["prod"].pc = "closeerr"
  /\ chans' = [chans EXCEPT !["errCh"] = Close(@)]
  /\ gor' = [gor EXCEPT !["prod"].pc = forFuncAfter("closeerr")]
  /\ UNCHANGED <<source, its, ctx, calls>>
  /\ UNCHANGED parseVars

\* The goroutine of ForMap: ch <- v for the next value of the map.
MapSend ==
  /\ source.kind = "map" /\ gor["prod"].pc = "range"
  /\ gor["prod"].k < Len(source.xs)
  /\ CanSend(chans["ch"])
  /\ chans' = [chans EXCEPT !["ch"] = Send(@, source.xs[gor["prod"].k + 1])]
  /\ gor' = [gor EXCEPT !["prod"].k = @ + 1]
  /\ UNCHANGED <<source, its, ctx, calls>>
  /\ UNCHANGED parseVars

\* The range is over: the deferred close(errCh) runs first.
MapCloseErrCh ==
  /\ source.kind = "map" /\ gor["prod"].pc = "range"
  /\ gor["prod"].k = Len(source.xs)
  /\ chans' = [chans EXCEPT !["errCh"] = Close(@)]
  /\ gor' = [gor EXCEPT !["prod"].pc = "closech"]
  /\ UNCHANGED <<source, its, ctx, calls>>
  /\ UNCHANGED parseVars

\* The deferred close(ch).
MapCloseCh ==
  /\ source.kind = "map" /\ gor["prod"].pc = "closech"
  /\ chans' = [chans EXCEPT !["ch"] = Close(@)]
  /\ gor' = [gor EXCEPT !["prod"].pc = "done"]
  /\ UNCHANGED <<source, its, ctx, calls>>
  /\ UNCHANGED parseVars

\* WithContext(it, ctx) for the iterator made before, with
\* context.Background() or a context that can be cancelled;
\* channelsFromIterator starts goroutine A, WithContext goroutine B.
\* (An iterator is wrapped once, by WithContext or by Flatten.)
WithContext ==
  /\ its["base"].next # "" /\ its["ctx"].next = "" /\ its["flat"].next = ""
  /\ calls = <<>> /\ gor["cons"].pc = "idle"
  /\ \E c \in {"background", "live"} : ctx' = c
  /\ chans' = [chans EXCEPT !["in"] = Chan(1), !["inErrs"] = Chan(1),
                            !["wch"] = Chan(1), !["werrCh"] = Chan(1)]
  /\ its' = [its EXCEPT !["ctx"] = Iterator("wch", "werrCh", its["base"].zero)]
  /\ gor' = [gor EXCEPT !["A"] = Goroutine("next"), !["B"] = Goroutine("select")]
  /\ UNCHANGED <<source, calls>>
  /\ UNCHANGED parseVars

\* The context is cancelled.
Cancel ==
  /\ ctx = "live"
  /\ ctx' = "cancelled"
  /\ UNCHANGED <<source, chans, its, gor, calls>>
  /\ UNCHANGED parseVars

\* Goroutine A (channelsFromIterator): v, err := it.Next(), first half.
ANext ==
  /\ gor["A"].pc = "next"
  /\ nextReady(its["base"], chans[its["base"].next])
  /\ chans' = [chans EXCEPT ![its["base"].next] = nextRecv(its["base"], @).c]
  /\ gor' = [gor EXCEPT !["A"] =
              [pc |-> IF nextRecv(its["base"], chans[its["base"].next]).select
                        THEN "select"
                      ELSE IF nextRecv(its["base"], chans[its["base"].next]).err # NilErr
                        THEN "senderr"
                      ELSE "sendv",
               v |-> nextRecv(its["base"], chans[its["base"].next]).v,
               err |-> nextRecv(its["base"], chans[its["base"].next]).err,
               k |-> @.k]]
  /\ UNCHANGED <<source, its, ctx, calls>>
  /\ UNCHANGED parseVars

\* Goroutine A: the select of it.Next(); the call returns an error.
ANextSelect ==
  /\ gor["A"].pc = "select"
  /\ chans' = [chans EXCEPT ![its["base"].errs] = nextSelect(@).e]
  /\ its' = [its EXCEPT !["base"].err = nextSelect(chans[its["base"].errs]).err]
  /\ gor' = [gor EXCEPT !["A"] =
              [pc |-> "senderr", v |-> its["base"].zero,
               err |-> nextSelect(chans[its["base"].errs]).err, k |-> @.k]]
  /\ UNCHANGED <<source, ctx, calls>>
  /\ UNCHANGED parseVars

\* Goroutine A: ch <- v
ASendValue ==
  /\ gor["A"].pc = "sendv"
  /\ CanSend(chans["in"])
  /\ chans' = [chans EXCEPT !["in"] = Send(@, gor["A"].v)]
  /\ gor' = [gor EXCEPT !["A"].pc = "next"]
  /\ UNCHANGED <<source, its, ctx, calls>>
  /\ UNCHANGED parseVars

\* Goroutine A: errCh <- err; return
ASendError ==
  /\ gor["A"].pc = "senderr"
  /\ CanSend(chans["inErrs"])
  /\ chans' = [chans EXCEPT !["inErrs"] = Send(@, gor["A"].err)]
  /\ gor' = [gor EXCEPT !["A"].pc = "done"]
  /\ UNCHANGED <<source, its, ctx, calls>>
  /\ UNCHANGED parseVars

\* Goroutine B (WithContext): the select takes one of the cases that are
\* ready, whichever.
BSelect ==
  /\ gor["B"].pc = "select"
  /\ \/ /\ Len(chans["in"].buf) > 0
        /\ chans' = [chans EXCEPT !["in"].buf = Tail(@)]
        /\ gor' = [gor EXCEPT !["B"].pc = "sendv", !["B"].v = Head(chans["in"].buf)]
     \/ /\ Len(chans["inErrs"].buf) > 0
        /\ chans' = [chans EXCEPT !["inErrs"].buf = Tail(@)]
        /\ gor' = [gor EXCEPT !["B"].pc = "senderr",
                              !["B"].err = Head(chans["inErrs"].buf)]
     \/ /\ ctx = "cancelled"
        /\ chans' = chans
        /\ gor' = [gor EXCEPT !["B"].pc = "closeerr"]
  /\ UNCHANGED <<source, its, ctx, calls>>
  /\ UNCHANGED parseVars

\* Goroutine B: ch <- v
BSendValue ==
  /\ gor["B"].pc = "sendv"
  /\ CanSend(chans["wch"])
  /\ chans' = [chans EXCEPT !["wch"] = Send(@, gor["B"].v)]
  /\ gor' = [gor EXCEPT !["B"].pc = "select"]
  /\ UNCHANGED <<source, its, ctx, calls>>
  /\ UNCHANGED parseVars

\* Goroutine B: errCh <- err; return
BSendError ==
  /\ gor["B"].pc = "senderr"
  /\ CanSend(chans["werrCh"])
  /\ chans' = [chans EXCEPT !["werrCh"] = Send(@, gor["B"].err)]
  /\ gor' = [gor EXCEPT !["B"].pc = "closeerr"]
  /\ UNCHANGED <<source, its, ctx, calls>>
  /\ UNCHANGED parseVars

\* Goroutine B returns: the deferred close(errCh) runs first.
BCloseErrCh ==
  /\ gor["B"].pc = "closeerr"
  /\ chans' = [chans EXCEPT !["werrCh"] = Close(@)]
  /\ gor' = [gor EXCEPT !["B"].pc = "closech"]
  /\ UNCHANGED <<source, its, ctx, calls>>
  /\ UNCHANGED parseVars

\* Goroutine B: the deferred close(ch).
BCloseCh ==
  /\ gor["B"].pc = "closech"
  /\ chans' = [chans EXCEPT !["wch"] = Close(@)]
  /\ gor' = [gor EXCEPT !["B"].pc = "done"]
  /\ UNCHANGED <<source, its, ctx, calls>>
  /\ UNCHANGED parseVars

\* Flatten(it) for the iterator of slices made before: the channels, the
\* iterator of the elements, and goroutine F.
Flatten ==
  /\ its["base"].next # "" /\ its["ctx"].next = "" /\ its["flat"].next = ""
  /\ source.elem = "slice"
  /\ calls = <<>> /\ gor["cons"].pc = "idle"
  /\ chans' = [chans EXCEPT !["fch"] = Chan(1), !["ferrCh"] = Chan(1)]
  /\ its' = [its EXCEPT !["flat"] = Iterator("fch", "ferrCh", Zero)]
  /\ gor' = [gor EXCEPT !["F"] = Goroutine("next")]
  /\ UNCHANGED <<source, ctx, calls>>
  /\ UNCHANGED parseVars

\* Goroutine F (Flatten): us, err := it.Next(), first half.
FNext ==
  /\ gor["F"].pc = "next"
  /\ nextReady(its["base"], chans[its["base"].next])
  /\ chans' = [chans EXCEPT ![its["base"].next] = nextRecv(its["base"], @).c]
  /\ gor' = [gor EXCEPT !["F"] =
              [pc |-> IF nextRecv(its["base"], chans[its["base"].next]).select
                        THEN "select"
                      ELSE flattenAfter(
                             nextRecv(its["base"], chans[its["base"].next]).v,
                             nextRecv(its["base"], chans[its["base"].next]).err, 0),
               v |-> nextRecv(its["base"], chans[its["base"].next]).v,
               err |-> nextRecv(its["base"], chans[its["base"].next]).err,
               k |-> 0]]
  /\ UNCHANGED <<source, its, ctx, calls>>
  /\ UNCHANGED parseVars

\* Goroutine F: the select of it.Next(); the call returns the nil slice and
\* an error.
FNextSelect ==
  /\ gor["F"].pc = "select"
  /\ chans' = [chans EXCEPT ![its["base"].errs] = nextSelect(@).e]
  /\ its' = [its EXCEPT !["base"].err = nextSelect(chans[its["base"].errs]).err]
  /\ gor' = [gor EXCEPT !["F"] =
              [pc |-> flattenAfter(its["base"].zero,
                                   nextSelect(chans[its["base"].errs]).err, 0),
               v |-> its["base"].zero,
               err |-> nextSelect(chans[its["base"].errs]).err, k |-> 0]]
  /\ UNCHANGED <<source, ctx, calls>>
  /\ UNCHANGED parseVars

\* Goroutine F: errCh <- err; break
FSendError ==
  /\ gor["F"].pc = "senderr"
  /\ CanSend(chans["ferrCh"])
  /\ chans' = [chans EXCEPT !["ferrCh"] = Send(@, gor["F"].err)]
  /\ gor' = [gor EXCEPT !["F"].pc = "closeerr"]
  /\ UNCHANGED <<source, its, ctx, calls>>
  /\ UNCHANGED parseVars

\* Goroutine F: ch <- u for the next element u of us; after the last one
\* the loop is left on Done and goes round otherwise.
FSendValue ==
  /\ gor["F"].pc = "sendv"
  /\ CanSend(chans["fch"])
  /\ chans' = [chans EXCEPT !["fch"] = Send(@, gor["F"].v[gor["F"].k + 1])]
  /\ gor' = [gor EXCEPT
              !["F"].pc = flattenAfter(gor["F"].v, gor["F"].err, gor["F"].k + 1),
              !["F"].k = @ + 1]
  /\ UNCHANGED <<source, its, ctx, calls>>
  /\ UNCHANGED parseVars

\* Goroutine F returns: the deferred close(errCh) runs first.
FCloseErrCh ==
  /\ gor["F"].pc = "closeerr"
  /\ chans' = [chans EXCEPT !["ferrCh"] = Close(@)]
  /\ gor' = [gor EXCEPT !["F"].pc = "closech"]
  /\ UNCHANGED <<source, its, ctx, calls>>
  /\ UNCHANGED parseVars

\* Goroutine F: the deferred close(ch).
FCloseCh ==
  /\ gor["F"].pc = "closech"
  /\ chans' = [chans EXCEPT !["fch"] = Close(@)]
  /\ gor' = [gor EXCEPT !["F"].pc = "done"]
  /\ UNCHANGED <<source, its, ctx, calls>>
  /\ UNCHANGED parseVars

\* The caller: it.Next(), first half; the call returns unless the channel
\* was closed and empty.
CallNext ==
  /\ gor["cons"].pc = "idle"
  /\ Len(calls) < MaxCalls
  /\ its[Top].next # ""
  /\ nextReady(its[Top], chans[its[Top].next])
  /\ chans' = [chans EXCEPT ![its[Top].next] = nextRecv(its[Top], @).c]
  /\ IF nextRecv(its[Top], chans[its[Top].next]).select
       THEN /\ gor' = [gor EXCEPT !["cons"].pc = "select"]
            /\ calls' = calls
       ELSE /\ gor' = gor
            /\ calls' = Append(calls,
                 [v |-> nextRecv(its[Top], chans[its[Top].next]).v,
                  err |-> nextRecv(its[Top], chans[its[Top].next]).err])
  /\ UNCHANGED <<source, its, ctx>>
  /\ UNCHANGED parseVars

\* The caller: the select of it.Next(); the call returns the zero value and
\* the error it keeps from now on.
CallNextSelect ==
  /\ gor["cons"].pc = "select"
  /\ chans' = [chans EXCEPT ![its[Top].errs] = nextSelect(@).e]
  /\ its' = [its EXCEPT ![Top].err = nextSelect(chans[its[Top].errs]).err]
  /\ calls' = Append(calls,
       [v |-> its[Top].zero, err |-> nextSelect(chans[its[Top].errs]).err])
  /\ gor' = [gor EXCEPT !["cons"].pc = "idle"]
  /\ UNCHANGED <<source, ctx>>
  /\ UNCHANGED parseVars

IterNext ==
  \/ ForSlice
  \/ ForMap
  \/ ForFunc
  \/ FuncCall
  \/ FuncSendValue
  \/ FuncSendError
  \/ FuncCloseCh
  \/ FuncCloseErrCh
  \/ MapSend
  \/ MapCloseErrCh
  \/ MapCloseCh
  \/ WithContext
  \/ Cancel
  \/ ANext
  \/ ANextSelect
  \/ ASendValue
  \/ ASendError
  \/ BSelect
  \/ BSendValue
  \/ BSendError
  \/ BCloseErrCh
  \/ BCloseCh
  \/ Flatten
  \/ FNext
  \/ FNextSelect
  \/ FSendError
  \/ FSendValue
  \/ FCloseErrCh
  \/ FCloseCh
  \/ CallNext
  \/ CallNextSelect

IterSpec == Init /\ [][IterNext]_vars

(***************************************************************************)
(* Vocabulary of the properties.                                           *)
(***************************************************************************)

Parsed == pc = "parsed"

\* Parse returned a Filter and no error.
Succeeded == Parsed /\ err.isNil /\ filter # <<>>

\* The input was built from the grammar.
Derived == Parsed /\ derivation # <<>>

NumConds == Len(derivation)

\* The name segment the parser records for the input segment seg.
NameOf(seg) ==
  IF parser.snakeCase THEN snakeCase(seg)
  ELSE IF parser.camelCase THEN camelCase(seg)
  ELSE seg

ExpParts(tok) == [j \in 1..Len(tok.parts) |-> NameOf(tok.parts[j])]

ExpKey(tok) == Join(ExpParts(tok))

\* Condition c has the key, operator and value of the condition token tok.
SameCond(c, tok) ==
  /\ c.key = ExpKey(tok)
  /\ c.keyParts = ExpParts(tok)
  /\ c.op = tok.op
  /\ c.stringValue = tok.value

\* c is (nil or not) a sequence of at most one condition: it is the
\* condition of token tok.
IsCond(c, tok) == c # <<>> /\ SameCond(c[1], tok)

\* The link of condition c that the separator sep selects.
Successor(c, sep) == IF sep = TokAND THEN And(c, heap) ELSE Or(c, heap)

\* The positions of the derivation, from j on, whose condition has key k.
RECURSIVE PositionsFrom(_, _)
PositionsFrom(k, j) ==
  IF j > NumConds THEN <<>>
  ELSE (IF ExpKey(derivation[j].tok) = k THEN <<j>> ELSE <<>>)
         \o PositionsFrom(k, j + 1)

Positions(k) == PositionsFrom(k, 1)

DerivedKeys == { ExpKey(derivation[j].tok) : j \in 1..NumConds }

\* The index holds, under every key of the input, one entry per condition
\* of the input with that key.
IndexShape(f) ==
  /\ DOMAIN f.m = DerivedKeys
  /\ \A k \in DOMAIN f.m : Len(f.m[k]) = Len(Positions(k))

\* What a condition says, without its links.
Content(c) == <<c.key, c.keyParts, c.op, c.stringValue>>

RECURSIVE ContentBag(_)
ContentBag(cs) ==
  IF Len(cs) = 0 THEN EmptyBag
  ELSE SetToBag({Content(cs[1])}) (+) ContentBag(Tail(cs))

RECURSIVE BagSum(_, _)
BagSum(ks, f) ==
  IF ks = {} THEN EmptyBag
  ELSE Let(CHOOSE k \in ks : TRUE, LAMBDA k :
         ContentBag(f.m[k]) (+) BagSum(ks \ {k}, f))

\* The conditions of the index, as a bag of contents.
IndexBag(f) == BagSum(DOMAIN f.m, f)

\* The conditions of the input, as a bag of contents.
DerivedBag ==
  ContentBag([j \in 1..NumConds |->
    [key |-> ExpKey(derivation[j].tok), keyParts |-> ExpParts(derivation[j].tok),
     op |-> derivation[j].tok.op, stringValue |-> derivation[j].tok.value]])

(***************************************************************************)
(* C1.  For an input with at least two conditions, First() is the first    *)
(* condition of the input and its successor link (And() after an AND       *)
(* separator, Or() after OR) is the second condition of the input.         *)
(* The code copies the first condition into the filter before it sets the  *)
(* link on another copy, so First() has no successor.                      *)
(***************************************************************************)
C1_FirstLinksToSecond ==
  (Succeeded /\ NumConds >= 2) =>
    /\ IsCond(First(filter[1]), derivation[1].tok)
    /\ IsCond(Successor(First(filter[1])[1], derivation[1].sep), derivation[2].tok)

(***************************************************************************)
(* C2.  For a successfully parsed input with n >= 1 conditions,            *)
(* Conditions() yields exactly n conditions, the i-th being the i-th       *)
(* condition of the input.  The code walks from First(), which has no      *)
(* links, and yields one condition only.                                   *)
(***************************************************************************)
C2_ConditionsYieldsAll ==
  (Succeeded /\ NumConds >= 1) =>
    /\ Len(Conditions(filter[1], heap)) = NumConds
    /\ \A j \in 1..NumConds :
         SameCond(Conditions(filter[1], heap)[j], derivation[j].tok)

(***************************************************************************)
(* C3.  Every condition of the index but the last one parsed links to the  *)
(* condition that immediately follows it in the input, and following the   *)
(* links from the first condition of the index visits every condition in   *)
(* input order.  In the code every link is the address of the one variable *)
(* cond, which ends up holding the last condition.                         *)
(***************************************************************************)
C3_LinkIsImmediateSuccessor ==
  (Succeeded /\ NumConds >= 1) =>
    /\ IndexShape(filter[1])
    /\ \A k \in DOMAIN filter[1].m : \A n \in 1..Len(filter[1].m[k]) :
         Positions(k)[n] < NumConds =>
           IsCond(Successor(filter[1].m[k][n], derivation[Positions(k)[n]].sep),
                  derivation[Positions(k)[n] + 1].tok)
    /\ Len(walk(filter[1].m[ExpKey(derivation[1].tok)][1], heap)) = NumConds
    /\ \A j \in 1..NumConds :
         SameCond(walk(filter[1].m[ExpKey(derivation[1].tok)][1], heap)[j],
                  derivation[j].tok)

(***************************************************************************)
(* C4.  The conditions stored in the index are exactly the conditions      *)
(* reachable from First() through And()/Or(), and every parsed condition   *)
(* occurs exactly once in each view.  In the code only the first condition *)
(* is reachable from First().                                              *)
(***************************************************************************)
C4_IndexEqualsChain ==
  Succeeded =>
    /\ IndexBag(filter[1]) = ContentBag(Conditions(filter[1], heap))
    /\ Derived => ContentBag(Conditions(filter[1], heap)) = DerivedBag

(***************************************************************************)
(* C5.  Each condition of the index has at most one of And() and Or()      *)
(* non-nil: And() alone after an AND separator, Or() alone after OR, and   *)
(* neither on the last condition parsed.                                   *)
(***************************************************************************)
LinksMatch(c, sep) ==
  /\ sep = TokAND => (And(c, heap) # <<>> /\ Or(c, heap) = <<>>)
  /\ sep = TokOR => (Or(c, heap) # <<>> /\ And(c, heap) = <<>>)
  /\ sep = <<>> => (And(c, heap) = <<>> /\ Or(c, heap) = <<>>)

C5_OneLinkPerSeparator ==
  Succeeded =>
    /\ \A k \in DOMAIN filter[1].m : \A n \in 1..Len(filter[1].m[k]) :
         ~(And(filter[1].m[k][n], heap) # <<>> /\ Or(filter[1].m[k][n], heap) # <<>>)
    /\ Derived =>
         /\ IndexShape(filter[1])
         /\ \A k \in DOMAIN filter[1].m : \A n \in 1..Len(filter[1].m[k]) :
              LinksMatch(filter[1].m[k][n], derivation[Positions(k)[n]].sep)

\* An input of three conditions, AND then OR, whose index conditions carry
\* the two kinds of link.
C5_Witness ==
  /\ Succeeded /\ NumConds = 3
  /\ derivation[1].sep = TokAND /\ derivation[2].sep = TokOR
  /\ \E k \in DOMAIN filter[1].m : \E n \in 1..Len(filter[1].m[k]) :
       Or(filter[1].m[k][n], heap) # <<>>
  /\ \E k \in DOMAIN filter[1].m : \E n \in 1..Len(filter[1].m[k]) :
       And(filter[1].m[k][n], heap) # <<>>

(***************************************************************************)
(* C6.  Parse("") returns no error and a non-nil empty Filter: Len() = 0,  *)
(* Get, GetFirst and GetLast find nothing under any key, First() is nil    *)
(* and Conditions() yields nothing.                                        *)
(***************************************************************************)
ProbeKeys == { <<>>, <<97>>, <<98, 67>>, <<98, 67, 46, 100, 95, 101>> }

C6_EmptyInputEmptyFilter ==
  (Parsed /\ input = <<>>) =>
    /\ err.isNil
    /\ filter # <<>>
    /\ FilterLen(filter[1]) = 0
    /\ \A k \in ProbeKeys :
         /\ ~Get(filter[1], k).ok
         /\ ~GetFirst(filter[1], k).ok /\ GetFirst(filter[1], k).c = <<>>
         /\ ~GetLast(filter[1], k).ok /\ GetLast(filter[1], k).c = <<>>
    /\ First(filter[1]) = <<>>
    /\ Conditions(filter[1], heap) = <<>>

C6_Witness == Parsed /\ input = <<>> /\ filter # <<>>

(***************************************************************************)
(* C7.  Every non-empty input derivable from the grammar, names starting   *)
(* with any Unicode letter (multi-byte ones included), is accepted.        *)
(* parseName looks at single bytes, so a name holding a two-byte letter is *)
(* cut after its first byte and the input is refused where an operator is  *)
(* looked for.                                                             *)
(***************************************************************************)
C7_GrammarInputAccepted == Derived => (err.isNil /\ filter # <<>>)

\* What the code does with e-acute=1: the byte 0xC3 is taken as the name
\* and the operator is missed at the byte 0xA9.
C7_Refused ==
  /\ Derived /\ NumConds = 1
  /\ input = <<195, 169, 61, 49>>
  /\ ~err.isNil /\ err.message = "expected operator" /\ err.position = 1

\* Every byte of every name segment of the derivation is an ASCII letter,
\* an ASCII digit or '_', the first one a letter.
AsciiName(seg) ==
  /\ Len(seg) >= 1
  /\ (seg[1] >= 65 /\ seg[1] <= 90) \/ (seg[1] >= 97 /\ seg[1] <= 122)
  /\ \A j \in 1..Len(seg) :
       \/ (seg[j] >= 65 /\ seg[j] <= 90) \/ (seg[j] >= 97 /\ seg[j] <= 122)
       \/ (seg[j] >= 48 /\ seg[j] <= 57) \/ seg[j] = 95

AsciiNames ==
  \A j \in 1..NumConds : \A n \in 1..Len(derivation[j].tok.parts) :
    AsciiName(derivation[j].tok.parts[n])

\* What the code does accept: every non-empty input derivable from the
\* grammar whose names consist of ASCII letters, ASCII digits and '_' and
\* start with an ASCII letter.
C7_AsciiGrammarInputAccepted ==
  (Derived /\ AsciiNames) => (err.isNil /\ filter # <<>>)

\* Three conditions, one with a dotted name and an empty value, one with a
\* quoted value, joined by both separators, are accepted.
C7_Witness ==
  /\ Derived /\ AsciiNames /\ NumConds = 3 /\ err.isNil
  /\ \E j \in 1..3 : derivation[j].tok.quoted
  /\ \E j \in 1..3 : Len(derivation[j].tok.parts) = 2
  /\ derivation[1].sep # derivation[2].sep

(***************************************************************************)
(* C8.  Parse returns either a non-nil Filter and a nil error, or a nil    *)
(* Filter and a non-nil ParseError; the error is the first one met from    *)
(* the left (the input before the error position is free of errors: some   *)
(* continuation of it is accepted); nothing built before the error is      *)
(* returned.                                                               *)
(***************************************************************************)
\* Continuations: "", "=", "a=", " a=", "AND a="
Completions ==
  { <<>>, <<61>>, <<97, 61>>, <<32, 97, 61>>, <<65, 78, 68, 32, 97, 61>> }

ViablePrefix(s, n) ==
  \E c \in Completions : Parse(parser, Slice(s, 0, n) \o c).err.isNil

C8_FilterXorError ==
  Parsed =>
    /\ \/ (filter # <<>> /\ err.isNil)
       \/ (filter = <<>> /\ ~err.isNil)
    /\ ~err.isNil =>
         /\ heap = <<>>
         /\ err.position \in 0..Len(input)
         /\ ViablePrefix(input, err.position)

\* A second condition fails after a first one was parsed: no Filter.
C8_Witness ==
  /\ Derived /\ NumConds >= 2 /\ ~err.isNil /\ filter = <<>>
  /\ err.position > Len(TokenText(derivation[1].tok))

(***************************************************************************)
(* C9.  For every ParseError of Parse(s), 0 <= Position() <= len(s) and    *)
(* Unparsable() is the suffix s[Position():].                              *)
(***************************************************************************)
C9_UnparsableIsSuffix ==
  (Parsed /\ ~err.isNil) =>
    /\ err.position >= 0 /\ err.position <= Len(input)
    /\ err.unparsable = From(input, err.position)

\* An error in the middle of the input, raised where a name had to start.
C9_Witness ==
  /\ Parsed /\ ~err.isNil
  /\ err.position > 0 /\ err.position < Len(input)
  /\ err.message = "name must start with letter"

(***************************************************************************)
(* C10.  Where a name ends, the operator is the shortest prefix of the     *)
(* rest of the input that is a registered operator; when no prefix is      *)
(* registered, Parse fails with "expected operator" at the end of the      *)
(* name.                                                                   *)
(***************************************************************************)
\* The lengths n such that the n bytes of s from e on are an operator.
OperatorLengths(s, e) ==
  { n \in 1..(Len(s) - e) : Slice(s, e, e + n) \in parser.ops }

Shortest(ns) == CHOOSE n \in ns : \A m \in ns : n <= m

\* e is where the first full name of the input ends.
OperatorAt(s, e) ==
  IF OperatorLengths(s, e) = {}
    THEN ~err.isNil /\ err.message = "expected operator" /\ err.position = e
    ELSE err.isNil =>
           /\ First(filter[1])[1].op = Slice(s, e, e + Shortest(OperatorLengths(s, e)))
           /\ \A k \in DOMAIN filter[1].m : \A n \in 1..Len(filter[1].m[k]) :
                /\ filter[1].m[k][n].op \in parser.ops
                /\ \A m \in 1..(Len(filter[1].m[k][n].op) - 1) :
                     SubSeq(filter[1].m[k][n].op, 1, m) \notin parser.ops

FirstNameParsed(r) == r.err.isNil => OperatorAt(input, r.i)

C10_ShortestOperator ==
  (Parsed /\ input # <<>>) => FirstNameParsed(parseFullName(parser, input, 0))

\* "a==" with "=" and "==" registered: operator "=", value "=".
C10_Witness ==
  /\ Succeeded /\ input = <<97, 61, 61>> /\ <<61, 61>> \in parser.ops
  /\ First(filter[1])[1].op = <<61>>
  /\ First(filter[1])[1].stringValue = <<61>>

\* A name followed by no operator: "expected operator" at the name's end.
C10_WitnessNoOperator ==
  /\ Parsed /\ ~err.isNil /\ err.message = "expected operator"
  /\ err.position > 0 /\ err.position < Len(input)

(***************************************************************************)
(* C11.  Wherever a name segment is expected (at the start of a condition  *)
(* or right after a '.' of a dotted path): at the end of the input Parse   *)
(* fails with "unexpected end of string, expected a name", and at a first  *)
(* character that is not a letter with "name must start with letter", both *)
(* positioned where the segment should start.  parseName classifies the    *)
(* first byte, not the first character: the copyright sign (0xC2 0xA9) is  *)
(* no letter but its first byte is taken for one, and the error becomes    *)
(* "expected operator" one byte later.                                     *)
(***************************************************************************)
\* The positions from e on where a segment of a dotted path has to start,
\* e being such a position; the path is scanned as long as its segments
\* are well formed.
RECURSIVE SegmentStarts(_, _)
SegmentStarts(s, e) ==
  IF e < Len(s) /\ parseName(parser, s, e).err.isNil
       /\ parseName(parser, s, e).i < Len(s)
       /\ At(s, parseName(parser, s, e).i) = nameSeparator
    THEN {e} \cup SegmentStarts(s, parseName(parser, s, e).i + 1)
    ELSE {e}

\* The positions from start on where a condition has to start, start being
\* such a position: the input after a well-formed condition and separator.
RECURSIVE ConditionStarts(_, _)
ConditionStarts(s, start) ==
  IF parseCondition(parser, s, start).err.isNil
       /\ parseCondition(parser, s, start).i < Len(s)
       /\ parseSeparator(s, parseCondition(parser, s, start).i).err.isNil
    THEN {start} \cup
         ConditionStarts(s, parseSeparator(s, parseCondition(parser, s, start).i).i)
    ELSE {start}

\* Every position of the input where a name segment is expected.
ExpectedSegments(s) ==
  UNION { SegmentStarts(s, c) : c \in ConditionStarts(s, 0) }

\* The character at position e of s: the rune encoded there.
CharAt(s, e) == DecodeRuneInString(s, e).r

C11_NameErrors ==
  (Parsed /\ input # <<>>) =>
    \A e \in ExpectedSegments(input) :
      /\ e = Len(input) =>
           err = NewParseError("unexpected end of string, expected a name", e, <<>>)
      /\ (e < Len(input) /\ ~IsLetter(CharAt(input, e))) =>
           /\ ~err.isNil
           /\ err.message = "name must start with letter"
           /\ err.position = e

(***************************************************************************)
(* C12.  Between two conditions Parse accepts only one or more whitespace  *)
(* characters, the token "AND" or "OR" (case-sensitive), and one or more   *)
(* whitespace characters.  Without leading whitespace it fails with        *)
(* "expected a whitespace", on any other token with "expected a condition  *)
(* separator (AND, OR)", and without whitespace after the token it fails   *)
(* too; each error is positioned where the failure is.                     *)
(***************************************************************************)
\* The result of Parse when the text from i on, which follows a well-formed
\* condition, has its leading whitespace up to a, a token up to b and
\* whitespace up to c.
GapOutcome(s, i, a, b, c) ==
  IF a = i
    THEN err = NewParseError("expected a whitespace", i, From(s, i))
  ELSE IF Slice(s, a, b) # TokAND /\ Slice(s, a, b) # TokOR
    THEN err = NewParseError("expected a condition separator (AND, OR)", a,
                             From(s, a))
  ELSE IF c = b
    THEN err = NewParseError("expected a whitespace", b, From(s, b))
  ELSE err.isNil \/ err.position >= c

GapAt(s, i) ==
  GapOutcome(s, i, spaceOrNonSpace(s, i, TRUE),
             spaceOrNonSpace(s, spaceOrNonSpace(s, i, TRUE), FALSE),
             spaceOrNonSpace(s, spaceOrNonSpace(s, spaceOrNonSpace(s, i, TRUE),
                                                FALSE), TRUE))

C12_SeparatorShape ==
  (Parsed /\ input # <<>>) =>
    \A st \in ConditionStarts(input, 0) :
      (parseCondition(parser, input, st).err.isNil
         /\ parseCondition(parser, input, st).i < Len(input)) =>
        GapAt(input, parseCondition(parser, input, st).i)

\* A lower-case token between two conditions is refused where it starts.
C12_Witness ==
  /\ Parsed /\ ~err.isNil
  /\ err.message = "expected a condition separator (AND, OR)"
  /\ err.position > 0
  /\ Len(err.unparsable) >= 4
  /\ SubSeq(err.unparsable, 1, 4) = <<97, 110, 100, 32>>

(***************************************************************************)
(* C13.  When the character after the operator is not a double quote, the  *)
(* value of the condition is the input from there up to, not including,    *)
(* the next whitespace character or the end of the input.  It may be empty *)
(* and it may hold operator characters.                                    *)
(***************************************************************************)
\* The first position from o on where the input ends or a whitespace
\* character stands.
ValueEnd(s, o) ==
  CHOOSE j \in o..Len(s) :
    /\ j = Len(s) \/ IsSpace(CharAt(s, j))
    /\ \A k \in o..(j - 1) : ~IsSpace(CharAt(s, k))

IsBareAt(s, o) == o = Len(s) \/ At(s, o) # quote

BareValues(cs) ==
  \A j \in 1..Len(cs) :
    IsBareAt(input, cs[j].vstart) =>
      /\ IndexedCond(cs, j).stringValue
           = Slice(input, cs[j].vstart, ValueEnd(input, cs[j].vstart))
      /\ cs[j].end = ValueEnd(input, cs[j].vstart)

\* Reading a bare value never fails: when the name and the operator of the
\* condition starting at st are well formed and a bare value follows at o,
\* Parse succeeds or fails beyond the end of that value.
BareValueRead(s, st) ==
  Let(parseOperator(parser, s, parseFullName(parser, s, st).i), LAMBDA o :
    (parseFullName(parser, s, st).err.isNil /\ o.err.isNil /\ IsBareAt(s, o.i)) =>
      (err.isNil \/ err.position > ValueEnd(s, o.i)))

C13_BareValue ==
  (Parsed /\ input # <<>>) =>
    /\ \A st \in ConditionStarts(input, 0) : BareValueRead(input, st)
    /\ Succeeded => BareValues(CondSeq(input, 0))

\* An empty value before a separator: "bC.d_e!= AND ..." or "bC.d_e!= OR ...".
EmptyBeforeSeparator(cs) ==
  /\ Len(cs) >= 2
  /\ cs[1].end = cs[1].vstart
  /\ IndexedCond(cs, 1).stringValue = <<>>

C13_Witness ==
  /\ Succeeded /\ input # <<>>
  /\ EmptyBeforeSeparator(CondSeq(input, 0))

(***************************************************************************)
(* C14.  A value that starts with a double quote extends to the first      *)
(* double quote that no active escape backslash precedes.  Its content is  *)
(* unescaped: backslash+quote gives a quote, backslash+backslash one       *)
(* backslash, backslash+another character the backslash and the character, *)
(* anything else is copied.  Without a terminating quote Parse fails with  *)
(* "unterminated quoted value" at the opening quote.                       *)
(* As stated the claim fails on bytes that are not valid UTF-8: the code   *)
(* reads the value rune by rune and writes U+FFFD for such a byte.         *)
(***************************************************************************)
\* What is copied for the text at position i of s, and its width: the byte
\* itself (raw), or the character encoded there, U+FFFD (0xEF 0xBF 0xBD)
\* standing for a byte that is not part of a valid encoding.
Copied(s, i, raw) ==
  IF raw THEN [out |-> <<At(s, i)>>, width |-> 1]
  ELSE [out |-> EncodeRune(CharAt(s, i)), width |-> DecodeRuneInString(s, i).width]

\* The content of the quoted value whose text starts at i (after the
\* opening quote): the unescaped value v, the position of the terminating
\* quote, and whether there is one.
RECURSIVE Unquote(_, _, _, _)
Unquote(s, i, v, raw) ==
  IF i >= Len(s) THEN [v |-> v, end |-> i, closed |-> FALSE]
  ELSE IF At(s, i) = quote THEN [v |-> v, end |-> i, closed |-> TRUE]
  ELSE IF At(s, i) = escapeCharacter
    THEN IF i + 1 >= Len(s) THEN [v |-> v, end |-> i + 1, closed |-> FALSE]
         ELSE IF At(s, i + 1) = quote \/ At(s, i + 1) = escapeCharacter
           THEN Unquote(s, i + 2, Append(v, At(s, i + 1)), raw)
         ELSE Unquote(s, i + 1 + Copied(s, i + 1, raw).width,
                      Append(v, escapeCharacter) \o Copied(s, i + 1, raw).out, raw)
  ELSE Unquote(s, i + Copied(s, i, raw).width, v \o Copied(s, i, raw).out, raw)

\* The outcome of Parse for a quoted value opening at o with content u.
QuotedOutcome(s, o, u) ==
  IF ~u.closed
    THEN err = NewParseError("unterminated quoted value", o, From(s, o))
    ELSE err.isNil \/ err.position > u.end

\* The condition starting at st has a quoted value: the outcome of Parse.
QuotedValueRead(s, st, raw) ==
  Let(parseOperator(parser, s, parseFullName(parser, s, st).i), LAMBDA o :
    (parseFullName(parser, s, st).err.isNil /\ o.err.isNil /\ ~IsBareAt(s, o.i)) =>
      QuotedOutcome(s, o.i, Unquote(s, o.i + 1, <<>>, raw)))

QuotedValues(cs, raw) ==
  \A j \in 1..Len(cs) :
    ~IsBareAt(input, cs[j].vstart) =>
      /\ IndexedCond(cs, j).stringValue
           = Unquote(input, cs[j].vstart + 1, <<>>, raw).v
      /\ cs[j].end = Unquote(input, cs[j].vstart + 1, <<>>, raw).end + 1

QuotedValueRule(raw) ==
  (Parsed /\ input # <<>>) =>
    /\ \A st \in ConditionStarts(input, 0) : QuotedValueRead(input, st, raw)
    /\ Succeeded => QuotedValues(CondSeq(input, 0), raw)

\* C14 as stated: whatever is not an escape sequence is copied.
C14_QuotedValue == QuotedValueRule(TRUE)

\* C14, amended: what is not an escape sequence is copied character by
\* character, and a byte that is not part of a valid UTF-8 encoding is
\* replaced by U+FFFD.
C14_QuotedValueByRune == QuotedValueRule(FALSE)

\* a="\"x": the escaped quote does not end the value, the next quote does;
\* the value is '"', 'x'.
C14_Witness ==
  /\ Succeeded
  /\ input = QuotedHead \o <<92, 34, 120, 34>>
  /\ First(filter[1])[1].stringValue = <<34, 120>>

(***************************************************************************)
(* C15.  Round trip: walking a parsed Filter from First() through And() /  *)
(* Or(), writing every condition as key, operator, value (quoted and       *)
(* escaped where needed) joined by " AND " or " OR " after the link taken, *)
(* and parsing that text gives the sequence of (key, operator, value,      *)
(* relation to the successor) the input had.  First() has no links in the  *)
(* code, so only the first condition is written.                           *)
(***************************************************************************)
\* A value has to be quoted when it holds a whitespace character or starts
\* with a quote.
NeedsQuotes(v) ==
  \/ \E i \in 0..(Len(v) - 1) : IsSpace(CharAt(v, i))
  \/ Len(v) > 0 /\ v[1] = quote

EmitValue(v) ==
  IF NeedsQuotes(v) THEN <<quote>> \o Escape(v) \o <<quote>> ELSE v

EmitCond(c) == c.key \o c.op \o EmitValue(c.stringValue)

\* The relation of condition c to its successor: the link that is set.
LinkTaken(c, h) ==
  IF And(c, h) # <<>> THEN TokAND
  ELSE IF Or(c, h) # <<>> THEN TokOR
  ELSE <<>>

\* The text written for the conditions cs reached by the walk.
RECURSIVE EmitAll(_, _)
EmitAll(cs, h) ==
  IF Len(cs) = 0 THEN <<>>
  ELSE EmitCond(cs[1])
         \o (IF Len(cs) = 1 THEN <<>> ELSE <<32>> \o LinkTaken(cs[1], h) \o <<32>>)
         \o EmitAll(Tail(cs), h)

Emit(f, h) == EmitAll(Conditions(f, h), h)

\* The sequence of (content, relation to the successor) read from a parse
\* result r by the walk from First().
WalkSeq(r) ==
  [j \in 1..Len(Conditions(r.filter[1], r.heap)) |->
     <<Content(Conditions(r.filter[1], r.heap)[j]),
       LinkTaken(Conditions(r.filter[1], r.heap)[j], r.heap)>>]

\* The sequence of (content, relation to the successor) of the input.
DerivedSeq ==
  [j \in 1..NumConds |->
     <<<<ExpKey(derivation[j].tok), ExpParts(derivation[j].tok),
         derivation[j].tok.op, derivation[j].tok.value>>,
       derivation[j].sep>>]

\* Parsing the text written succeeds and the walk over its result reads
\* the sequence the input had.
RoundTrip(r) ==
  /\ r.err.isNil /\ r.filter # <<>>
  /\ WalkSeq(r) = DerivedSeq

C15_RoundTrip ==
  (Succeeded /\ Derived) => RoundTrip(Parse(parser, Emit(filter[1], heap)))

\* What the code does: the round trip holds for inputs of one condition,
\* and for longer ones the text written is the first condition alone.
RoundTripOfFirst ==
  (Succeeded /\ Derived) =>
    /\ Emit(filter[1], heap) = EmitCond(First(filter[1])[1])
    /\ NumConds = 1 => RoundTrip(Parse(parser, Emit(filter[1], heap)))

(***************************************************************************)
(* C16.  For every key k of a parsed Filter, Get(k) returns the conditions *)
(* with key k in the order of the input, duplicates kept, and true;        *)
(* GetFirst(k) returns the first and GetLast(k) the last of them.  For a   *)
(* key without a condition the three report not-found.                     *)
(***************************************************************************)
\* Get, GetFirst and GetLast for a key k of the input.
KeyFound(f, k) ==
  /\ Get(f, k).ok
  /\ Len(Get(f, k).cs) = Len(Positions(k))
  /\ \A n \in 1..Len(Positions(k)) :
       SameCond(Get(f, k).cs[n], derivation[Positions(k)[n]].tok)
  /\ GetFirst(f, k).ok
  /\ IsCond(GetFirst(f, k).c, derivation[Positions(k)[1]].tok)
  /\ GetLast(f, k).ok
  /\ IsCond(GetLast(f, k).c, derivation[Positions(k)[Len(Positions(k))]].tok)

\* Get, GetFirst and GetLast for a key k that is not in the input.
KeyNotFound(f, k) ==
  /\ ~Get(f, k).ok /\ Get(f, k).cs = <<>>
  /\ ~GetFirst(f, k).ok /\ GetFirst(f, k).c = <<>>
  /\ ~GetLast(f, k).ok /\ GetLast(f, k).c = <<>>

C16_Lookup ==
  (Succeeded /\ Derived) =>
    /\ DOMAIN filter[1].m = DerivedKeys
    /\ \A k \in DerivedKeys : KeyFound(filter[1], k)
    /\ \A k \in ProbeKeys \ DerivedKeys : KeyNotFound(filter[1], k)

\* The key "a" occurs first with the value 1 and last with another value,
\* a condition with another key in between; "bC" is not a key.
C16_Witness ==
  /\ Succeeded /\ Derived /\ NumConds = 3
  /\ Positions(<<97>>) = <<1, 3>>
  /\ GetFirst(filter[1], <<97>>).c[1].stringValue = <<49>>
  /\ GetLast(filter[1], <<97>>).c[1].stringValue = <<113, 32, 34, 92>>
  /\ ~Get(filter[1], <<98, 67>>).ok

(***************************************************************************)
(* C17.  After Parse has returned a Filter, nothing a caller does through  *)
(* the public interface, use of the returned values included, changes the  *)
(* index, the first condition or any condition's key, key parts, operator, *)
(* value or links.  Get and KeyParts return slices the Filter goes on      *)
(* using, so a caller that assigns to an element of them changes what      *)
(* later reads return.                                                     *)
(***************************************************************************)
SameFilter == filter' = filter /\ heap' = heap

C17_NothingChanges == [][Intact => SameFilter]_vars

\* What the code does: a caller has assigned to an element of the slice
\* Get or KeyParts returned, and the Filter is no longer what Parse
\* returned.
C17_Changed ==
  /\ pc = "written"
  /\ \/ filter # Parse(parser, input).filter
     \/ heap # Parse(parser, input).heap

(***************************************************************************)
(* C18.  NewParser with both the snake_case and the camelCase option       *)
(* panics and returns no parser, whatever the order of the two options;    *)
(* with no or one naming option it returns a parser.                       *)
(***************************************************************************)
Has(options, opt) == \E i \in 1..Len(options) : options[i] = opt

C18_ConflictingOptionsPanic ==
  /\ \A options \in OptionLists :
       /\ NewParserOutcome(options).panic
            <=> (Has(options, "snake") /\ Has(options, "camel"))
       /\ ~NewParserOutcome(options).panic =>
            /\ NewParserOutcome(options).parser.snakeCase = Has(options, "snake")
            /\ NewParserOutcome(options).parser.camelCase = Has(options, "camel")
            /\ NewParserOutcome(options).parser.ops = DefaultOps
  /\ pc = "panicked" => parser = ZeroParser
  /\ pc \notin {"new", "panicked"} => ~(parser.snakeCase /\ parser.camelCase)

\* NewParser has panicked: no parser, nothing parsed.
C18_Witness == pc = "panicked" /\ parser = ZeroParser /\ filter = <<>>

(***************************************************************************)
(* C19.  With snake_case, in each name segment every upper-case letter is  *)
(* replaced by its lower-case form, preceded by an inserted '_' unless it  *)
(* is the first character of the segment or follows an upper-case letter   *)
(* or a '_'; all other characters are unchanged.  The parser admits in a   *)
(* name any byte that is a letter as a code point of its own, and for such *)
(* a byte that is part of no valid UTF-8 encoding the transform writes     *)
(* U+FFFD instead of leaving it unchanged.                                 *)
(***************************************************************************)
\* The segments of the dotted name text s.
RECURSIVE SplitDots(_, _)
SplitDots(s, seg) ==
  IF Len(s) = 0 THEN <<seg>>
  ELSE IF s[1] = nameSeparator THEN <<seg>> \o SplitDots(Tail(s), <<>>)
  ELSE SplitDots(Tail(s), Append(seg, s[1]))

\* The name segments of the first condition, as the input has them.
RawSegments == SplitDots(Slice(input, 0, parseFullName(parser, input, 0).i), <<>>)

\* The byte at i of seg is part of no valid UTF-8 encoding.
InvalidAt(seg, i) ==
  /\ DecodeRuneInString(seg, i).width = 1
  /\ At(seg, i) >= 128

\* What the rule makes of seg from i on, the characters of seg being the
\* code points it encodes; a byte that is part of no valid encoding is
\* a character that is no upper-case letter, written as what replaces
\* (the byte itself where kept, else U+FFFD).  prev tells whether seg
\* starts at i ("start") or what the character before i is.
RECURSIVE SnakeFrom(_, _, _, _)
SnakeFrom(seg, i, prev, kept) ==
  IF i >= Len(seg) THEN <<>>
  ELSE IF InvalidAt(seg, i)
    THEN (IF kept THEN <<At(seg, i)>> ELSE EncodeRune(65533))
           \o SnakeFrom(seg, i + 1, "other", kept)
  ELSE Let(DecodeRuneInString(seg, i), LAMBDA d :
    IF IsUpper(d.r)
      THEN (IF prev = "other" THEN <<95>> ELSE <<>>)
             \o EncodeRune(ToLower(d.r))
             \o SnakeFrom(seg, i + d.width, "upper", kept)
      ELSE EncodeRune(d.r)
             \o SnakeFrom(seg, i + d.width,
                          IF d.r = 95 THEN "underscore" ELSE "other", kept))

SnakeOf(seg, kept) == SnakeFrom(seg, 0, "start", kept)

SnakeRule(kept) ==
  (Succeeded /\ parser.snakeCase) =>
    /\ Len(First(filter[1])[1].keyParts) = Len(RawSegments)
    /\ \A n \in 1..Len(RawSegments) :
         First(filter[1])[1].keyParts[n] = SnakeOf(RawSegments[n], kept)
    /\ First(filter[1])[1].key = Join(First(filter[1])[1].keyParts)
    /\ GetFirst(filter[1], First(filter[1])[1].key).ok

\* C19: what is not an upper-case letter is left as it is.
C19_SnakeCase == SnakeRule(TRUE)

\* What the code does: a byte that is part of no valid encoding is
\* written as U+FFFD, and all else is as the rule says.
C19_SnakeCaseByRune == SnakeRule(FALSE)

\* The name is the letter e-circumflex, two bytes: it is left as it is.
C19_ValidLetterKept ==
  /\ Succeeded /\ parser.snakeCase
  /\ input = <<195, 170>> \o NameTail
  /\ First(filter[1])[1].key = <<195, 170>>

\* The name is the byte 0xAA alone: the key is U+FFFD.
C19_InvalidByteReplaced ==
  /\ Succeeded /\ parser.snakeCase
  /\ input = <<170>> \o NameTail
  /\ First(filter[1])[1].key = <<239, 191, 189>>

\* The name is U+0132, an upper-case letter beyond Latin-1: the key is its
\* lower-case letter U+0133.
C19_WideLetterLowered ==
  /\ Succeeded /\ parser.snakeCase
  /\ input = <<196, 178>> \o NameTail
  /\ First(filter[1])[1].key = <<196, 179>>

\* "aBB": an underscore before the first B only.
C19_Witness ==
  /\ Succeeded /\ parser.snakeCase
  /\ input = <<97, 66, 66>> \o NameTail
  /\ First(filter[1])[1].key = <<97, 95, 98, 98>>

(***************************************************************************)
(* C20.  With camelCase, in each name segment every '_' is dropped, the    *)
(* character following an underscore is upper-cased, and the first         *)
(* character of the result is lower-case whatever its case was; the result *)
(* holds no '_'.                                                           *)
(***************************************************************************)
\* The number of characters among the first j of cs that are no '_'.
Kept(cs, j) == Cardinality({ i \in 1..j : cs[i] # 95 })

\* rr is a camelCase form of the characters cs.
CamelForm(cs, rr) ==
  /\ \A i \in 1..Len(rr) : rr[i] # 95
  /\ Len(rr) = Kept(cs, Len(cs))
  /\ \A j \in 1..Len(cs) :
       cs[j] # 95 =>
         /\ rr[Kept(cs, j)] \in {cs[j], ToLower(cs[j]), ToUpper(cs[j])}
         /\ (j > 1 /\ cs[j - 1] = 95) => rr[Kept(cs, j)] = ToUpper(cs[j])
  /\ Len(rr) >= 1 => ~IsUpper(rr[1])

C20_CamelCase ==
  (Succeeded /\ parser.camelCase) =>
    /\ Len(First(filter[1])[1].keyParts) = Len(RawSegments)
    /\ \A n \in 1..Len(RawSegments) :
         CamelForm(Runes(RawSegments[n], 0),
                   Runes(First(filter[1])[1].keyParts[n], 0))
    /\ First(filter[1])[1].key = Join(First(filter[1])[1].keyParts)
    /\ \A i \in 1..Len(First(filter[1])[1].key) : First(filter[1])[1].key[i] # 95

\* "a_" and U+0133 give "a" and U+0132: the letter after the underscore is
\* raised beyond Latin-1 too.
C20_WideLetterRaised ==
  /\ Succeeded /\ parser.camelCase
  /\ input = <<97, 95, 196, 179>> \o NameTail
  /\ First(filter[1])[1].key = <<97, 196, 178>>

\* "B_a" gives "bA": the first character lowered, the underscore dropped,
\* the character after it raised.
C20_Witness ==
  /\ Succeeded /\ parser.camelCase
  /\ input = <<66, 95, 97>> \o NameTail
  /\ First(filter[1])[1].key = <<98, 65>>

(***************************************************************************)
(* C21.  A naming transform changes keys only: Parse fails or succeeds as  *)
(* it does without the option, with the same message and position, and on  *)
(* success gives as many conditions with the same operators, values and    *)
(* AND/OR links; each key part is the transform of the part read without   *)
(* the option.                                                             *)
(***************************************************************************)
\* The parser p without its naming option.
Plain(p) == [p EXCEPT !.snakeCase = FALSE, !.camelCase = FALSE]

\* The name transform of parser p.
Transform(p, seg) ==
  IF p.snakeCase THEN snakeCase(seg)
  ELSE IF p.camelCase THEN camelCase(seg)
  ELSE seg

\* The keys of the conditions Parse(p, s) reads from the condition start st
\* on, in input order.
RECURSIVE KeySeq(_, _, _)
KeySeq(p, s, st) ==
  Let(parseCondition(p, s, st), LAMBDA c :
    IF ~c.err.isNil THEN <<>>
    ELSE <<c.v.key>>
           \o (IF c.i < Len(s) /\ parseSeparator(s, c.i).err.isNil
                 THEN KeySeq(p, s, parseSeparator(s, c.i).i)
                 ELSE <<>>))

\* The conditions of the index of filter f in input order, ks being the
\* keys in input order.
InOrder(f, ks) ==
  [j \in 1..Len(ks) |->
     f.m[ks[j]][Cardinality({ i \in 1..j : ks[i] = ks[j] })]]

\* What of a condition is no key: operator, value, links.
Keyless(c) ==
  [op |-> c.op, stringValue |-> c.stringValue,
   nextAnd |-> c.nextAnd, nextOr |-> c.nextOr]

\* Condition c is condition q with its key parts transformed.
Renamed(p, c, q) ==
  /\ Keyless(c) = Keyless(q)
  /\ Len(c.keyParts) = Len(q.keyParts)
  /\ \A n \in 1..Len(q.keyParts) : c.keyParts[n] = Transform(p, q.keyParts[n])
  /\ c.key = Join(c.keyParts)

\* The parse result r (of parser p) is the result q of the plain parser
\* with the keys transformed.
KeysOnly(p, s, r, q) ==
  /\ r.err.isNil = q.err.isNil
  /\ r.err.message = q.err.message
  /\ r.err.position = q.err.position
  /\ r.err.unparsable = q.err.unparsable
  /\ (r.filter = <<>>) = (q.filter = <<>>)
  /\ (r.filter # <<>> /\ s # <<>>) =>
       /\ Len(KeySeq(p, s, 0)) = Len(KeySeq(Plain(p), s, 0))
       /\ \A j \in 1..Len(KeySeq(p, s, 0)) :
            Renamed(p, InOrder(r.filter[1], KeySeq(p, s, 0))[j],
                    InOrder(q.filter[1], KeySeq(Plain(p), s, 0))[j])
       /\ Renamed(p, First(r.filter[1])[1], First(q.filter[1])[1])
       /\ Len(r.heap) = Len(q.heap)
       /\ \A a \in 1..Len(r.heap) : Renamed(p, r.heap[a], q.heap[a])

C21_TransformChangesKeysOnly ==
  (Parsed /\ (parser.snakeCase \/ parser.camelCase)) =>
    KeysOnly(parser, input, [filter |-> filter, err |-> err, heap |-> heap],
             Parse(Plain(parser), input))

\* Two or more conditions read with camelCase, a key other than without.
C21_Witness ==
  /\ Succeeded /\ parser.camelCase
  /\ Len(KeySeq(parser, input, 0)) >= 2
  /\ KeySeq(parser, input, 0) # KeySeq(Plain(parser), input, 0)
  /\ filter = Parse(parser, input).filter

\* The same error with and without snake_case.
C21_WitnessError ==
  /\ Parsed /\ parser.snakeCase /\ ~err.isNil
  /\ err = Parse(Plain(parser), input).err

(***************************************************************************)
(* C26.  Without a naming transform every name segment Parse accepts       *)
(* matches [a-zA-Z][a-zA-Z0-9_]*: a key holds ASCII letters, ASCII digits  *)
(* and '_' only (and '.' between the segments).                            *)
(***************************************************************************)
\* Every condition a Filter holds: those of the index, the first one, and
\* the one the links point to.
HeldConds(f, h) ==
  UNION { { f.m[k][n] : n \in 1..Len(f.m[k]) } : k \in DOMAIN f.m }
    \cup { f.first[n] : n \in 1..Len(f.first) }
    \cup { h[a] : a \in 1..Len(h) }

C26_AcceptedNamesAreAscii ==
  (Succeeded /\ ~parser.snakeCase /\ ~parser.camelCase) =>
    \A c \in HeldConds(filter[1], heap) :
      \A n \in 1..Len(c.keyParts) : AsciiName(c.keyParts[n])

(***************************************************************************)
(* C27.  For every condition of every parsed Filter, KeyParts() has at     *)
(* least one element, no element is empty, and Key() is the elements       *)
(* joined with '.', with and without a naming transform.                   *)
(***************************************************************************)
\* The elements of parts with a '.' before each but the first.
RECURSIVE Dotted(_, _)
Dotted(parts, n) ==
  IF n > Len(parts) THEN <<>>
  ELSE (IF n = 1 THEN <<>> ELSE <<46>>) \o parts[n] \o Dotted(parts, n + 1)

C27_KeyPartsShape ==
  Succeeded =>
    \A c \in HeldConds(filter[1], heap) :
      /\ Len(c.keyParts) >= 1
      /\ \A n \in 1..Len(c.keyParts) : Len(c.keyParts[n]) >= 1
      /\ c.key = Dotted(c.keyParts, 1)

\* A key of two parts read with camelCase, the second one transformed.
C27_Witness ==
  /\ Succeeded /\ parser.camelCase
  /\ First(filter[1]) # <<>>
  /\ First(filter[1])[1].keyParts = <<(<<98, 67>>), (<<100, 69>>)>>
  /\ First(filter[1])[1].key = <<98, 67, 46, 100, 69>>

(***************************************************************************)
(* C28.  Parse terminates on every input and its cursor only moves         *)
(* forward: every parse routine returns a position not before the one it   *)
(* was given (and not past the end), a routine that succeeds in reading a  *)
(* name, an operator, a separator or a condition returns a later one, and  *)
(* every decoding step of a loop is at least one byte wide.                *)
(***************************************************************************)
\* Position i is not before st and not past the end of s.
Onward(s, st, i) == st <= i /\ i <= Len(s)

\* The result r of a routine started at st: not before st, and past st
\* when it succeeded.
Advances(s, st, r) == Onward(s, st, r.i) /\ (r.err.isNil => r.i > st)

\* The routines of parser p on s, started at st.
ForwardAt(p, s, st) ==
  /\ Onward(s, st, spaceOrNonSpace(s, st, TRUE))
  /\ Onward(s, st, spaceOrNonSpace(s, st, FALSE))
  /\ Advances(s, st, parseSeparator(s, st))
  /\ Advances(s, st, parseName(p, s, st))
  /\ Advances(s, st, parseNameParts(p, s, st))
  /\ Advances(s, st, parseFullName(p, s, st))
  /\ Advances(s, st, parseOperator(p, s, st))
  /\ Advances(s, st, parseCondition(p, s, st))
  /\ Onward(s, st, parseValue(p, s, st).i)
  /\ Onward(s, st, parseNormalValue(p, s, st).i)
  /\ Onward(s, st, parseQuotesEscaped(p, s, st).i)
  /\ st < Len(s) =>
       Let(DecodeRuneInString(s, st), LAMBDA d :
         d.width >= 1 /\ st + d.width <= Len(s))
  /\ (st < Len(s) /\ At(s, st) = quote) =>
       Let(parseQuotedValue(p, s, st), LAMBDA r :
         Onward(s, st, r.i) /\ (r.err.isNil => r.i >= st + 2))

C28_CursorMovesForward ==
  Parsed =>
    /\ \A st \in 0..Len(input) : ForwardAt(parser, input, st)
    /\ input # <<>> => Onward(input, 0, parseConditions(parser, input, 0).i)
    /\ (filter = <<>>) # err.isNil

\* Parse has returned on a="<0xA9>\ : a quote never closed, a byte that is
\* not valid UTF-8, a backslash as the last character.
C28_Witness ==
  /\ Parsed
  /\ input = QuotedHead \o <<169, 92>>
  /\ ~err.isNil /\ err.message = "unterminated quoted value" /\ err.position = 2

(***************************************************************************)
(* C29.  Escaping round-trips through quoted values: for every string v,   *)
(* the input key="..." whose quoted text is v with each backslash doubled  *)
(* and each double quote preceded by a backslash parses to a condition     *)
(* whose StringValue() is exactly v.                                       *)
(* As stated the claim fails for a v holding a byte that is not valid      *)
(* UTF-8: the value comes back with U+FFFD in its place.                   *)
(***************************************************************************)
\* The string whose escaped form is the text b from its k-th symbol on,
\* if b is an escaped form: a backslash stands for the symbol after it.
RECURSIVE Unescaped(_, _)
Unescaped(b, k) ==
  IF k > Len(b) THEN <<>>
  ELSE IF b[k] = escapeCharacter /\ k < Len(b)
    THEN <<b[k + 1]>> \o Unescaped(b, k + 2)
  ELSE <<b[k]>> \o Unescaped(b, k + 1)

\* The one string v the input can be the escaped form of: what stands
\* between a=" and the last symbol of the input, unescaped.
EscapedValue == Unescaped(Slice(input, Len(QuotedHead), Len(input) - 1), 1)

\* a="..." with v escaped between the quotes.
EscapedInput(v) == QuotedHead \o Escape(v) \o <<quote>>

\* The characters rs, from the k-th on, encoded as UTF-8.
RECURSIVE EncodeAll(_, _)
EncodeAll(rs, k) ==
  IF k > Len(rs) THEN <<>> ELSE EncodeRune(rs[k]) \o EncodeAll(rs, k + 1)

\* v read character by character and written again: v itself when v is
\* valid UTF-8, else v with U+FFFD for each byte that is part of no valid
\* encoding.
Reencoded(v) == EncodeAll(Runes(v, 0), 1)

\* Whenever the input is a=" v escaped ", what comes back is v itself
\* (raw), or v read character by character.  Escaping can be undone, so
\* the input is the escaped form of EscapedValue or of no string at all.
EscapeRoundTrip(raw) ==
  (Parsed /\ Len(input) >= Len(QuotedHead) + 1
     /\ input = EscapedInput(EscapedValue)) =>
    /\ Succeeded
    /\ DOMAIN filter[1].m = {<<97>>}
    /\ Len(filter[1].m[<<97>>]) = 1
    /\ First(filter[1])[1].stringValue
         = (IF raw THEN EscapedValue ELSE Reencoded(EscapedValue))
    /\ filter[1].m[<<97>>][1].stringValue
         = (IF raw THEN EscapedValue ELSE Reencoded(EscapedValue))

\* C29 as stated: the value that comes back is v.
C29_EscapeRoundTrip == EscapeRoundTrip(TRUE)

\* C29, amended: the value that comes back is v read as UTF-8 and encoded
\* again, which is v exactly when v is valid UTF-8.
C29_EscapeRoundTripByRune == EscapeRoundTrip(FALSE)

\* v is x followed by a backslash: a="x\\" comes back as v.
C29_Witness ==
  /\ Succeeded
  /\ input = EscapedInput(<<120, 92>>)
  /\ input = QuotedHead \o <<120, 92, 92, 34>>
  /\ First(filter[1])[1].stringValue = <<120, 92>>

(***************************************************************************)
(* Vocabulary of the iterator properties.                                  *)
(***************************************************************************)

\* What a call of Next returns.
Result(v, e) == [v |-> v, err |-> e]

\* The caller calls Next on the iterator the constructor returned, not on
\* one wrapped by WithContext or by Flatten.
Unwrapped ==
  source.kind # "none" /\ its["ctx"].next = "" /\ its["flat"].next = ""

Wrapped == its["ctx"].next # ""

\* The values are ints, and the source is a polled function that gives xs
\* and then e.
FuncOfInts(xs, e) ==
  /\ source.elem = "int" /\ source.kind = "func"
  /\ source.xs = xs /\ source.e = e

(***************************************************************************)
(* C22.  Once a call of Next has returned a non-nil error e, every later   *)
(* call of Next on that iterator returns e and the zero value, and never   *)
(* another element.                                                        *)
(***************************************************************************)
C22_ErrorIsKept ==
  \A i \in 1..Len(calls) : \A j \in 1..Len(calls) :
    (i < j /\ calls[i].err # NilErr) =>
      calls[j] = Result(its[Top].zero, calls[i].err)

\* ForFunc over a function that gives 1 and then fails: Next returned 1,
\* the error, and the error again, twice.
C22_Witness ==
  /\ FuncOfInts(<<1>>, Oops)
  /\ calls = <<Result(1, NilErr), Result(Zero, Oops), Result(Zero, Oops),
               Result(Zero, Oops)>>

(***************************************************************************)
(* C23.  For a finite iterator that ends without failure, from the call of *)
(* Next that returns the last value onward, the error Next returns is      *)
(* always Done.                                                            *)
(***************************************************************************)
\* The iterator is finite and ends without failure.
EndsWell == source.kind \in {"slice", "map"} \/ (source.kind = "func" /\ source.e = Done)

C23_DoneFromLastValue ==
  (Unwrapped /\ EndsWell) =>
    \A j \in 1..Len(calls) : j >= Len(source.xs) => calls[j].err = Done

\* What the code does: the calls after the one that returned the last
\* value return Done, that call itself returns nil.
DoneAfterLastValue ==
  (Unwrapped /\ EndsWell) =>
    \A j \in 1..Len(calls) :
      IF j <= Len(source.xs)
        THEN calls[j] = Result(source.xs[j], NilErr)
        ELSE calls[j] = Result(its[Top].zero, Done)

(***************************************************************************)
(* C24.  ForFunc(f) polls f until f returns a non-nil error: whatever the  *)
(* interleaving of its goroutine and the caller, Next returns the values f *)
(* returned before that error, in f's order, and after them that error;    *)
(* nothing is lost, duplicated or reordered, and no call of Next waits for *)
(* ever.                                                                   *)
(***************************************************************************)
C24_ForFuncDelivers ==
  (Unwrapped /\ source.kind = "func") =>
    /\ \A j \in 1..Len(calls) :
         IF j <= Len(source.xs)
           THEN calls[j] = Result(source.xs[j], NilErr)
           ELSE calls[j] = Result(its[Top].zero, source.e)
    /\ Len(calls) < MaxCalls => ENABLED IterNext

\* f gave 2, 1 and then failed: Next returned 2, 1 and the error.
C24_Witness ==
  /\ Unwrapped
  /\ FuncOfInts(<<2, 1>>, Oops)
  /\ calls = <<Result(2, NilErr), Result(1, NilErr), Result(Zero, Oops)>>
  /\ gor["prod"].pc = "done"

(***************************************************************************)
(* C30.  An iterator wrapped by WithContext whose context is never         *)
(* cancelled yields every value of the wrapped iterator, in order, before  *)
(* it reports Done or the error of the wrapped iterator, whatever the      *)
(* interleaving of the two forwarding goroutines.                          *)
(***************************************************************************)
C30_WithContextDelivers ==
  (Wrapped /\ ctx # "cancelled") =>
    \A j \in 1..Len(calls) :
      IF j <= Len(source.xs)
        THEN calls[j] = Result(source.xs[j], NilErr)
        ELSE calls[j] = Result(its[Top].zero, source.e)

(***************************************************************************)
(* C25.  Traversal is restartable: every call of Conditions() on the same  *)
(* Filter yields the same complete sequence from the first condition,      *)
(* however many traversals were made before, and a traversal changes no    *)
(* condition and no link.                                                  *)
(* The traversals agree and change nothing; what fails is "complete": the  *)
(* walk starts at First(), which has no links.                             *)
(***************************************************************************)
\* The traversal t holds every condition of the input, in input order.
IsComplete(t) ==
  /\ Len(t) = Len(KeySeq(parser, input, 0))
  /\ \A j \in 1..Len(t) :
       /\ t[j].key = KeySeq(parser, input, 0)[j]
       /\ t[j].keyParts = InOrder(filter[1], KeySeq(parser, input, 0))[j].keyParts
       /\ t[j].op = InOrder(filter[1], KeySeq(parser, input, 0))[j].op
       /\ t[j].stringValue = InOrder(filter[1], KeySeq(parser, input, 0))[j].stringValue

\* A call of Conditions() after another gives what that one gave, and the
\* Filter is as it was.
SameTraversal ==
  /\ Conditions(filter'[1], heap') = Conditions(filter[1], heap)
  /\ SameFilter

C25_TraversalRestartable ==
  [][(Intact /\ Intact') => (SameTraversal /\ IsComplete(Conditions(filter[1], heap)))]_vars

\* The part of C25 that holds: traversals agree and change nothing.
TraversalsAgree == [][(Intact /\ Intact') => SameTraversal]_vars

====
